---- MODULE Spec2Model ----
(***************************************************************************)
(* Agent Coordination Core of cognitive-core: the A2A TaskManager          *)
(* (a2a/task_manager.py), the ContextManager (a2a/context_manager.py) and  *)
(* the EventQueue (a2a/event_queue.py), modelled as state machines.        *)
(***************************************************************************)
EXTENDS Integers, Sequences, FiniteSets, TLC

(***************************************************************************)
(* Bounds of the model                                                     *)
(***************************************************************************)
\* get_timestamp() returns the instants 1..MaxTime, one per reading
MaxTime == 4
\* cap on the length of one context's task-id list in the TaskManager index
MaxIndexLen == 3
\* cap on the number of put calls made on the EventQueue
MaxPuts == 4

\* Python None for optional string / dict values
None == "None"
\* Python None for an optional timestamp
NoTime == -1
\* the empty dict {} passed as input_data
EmptyDict == "{}"
\* the empty string, falsy in Python
EmptyStr == ""

TaskIds == {"t1", "t2"}
ContextIds == {"c1", "c2"}
SkillIds == {"s1"}
InputData == {"d1"}
OutputData == {"o1"}
ErrorMessages == {"m1"}
\* the (output_data, error_message) pairs passed to update_task_status directly
Payloads == {<<None, None>>, <<"o1", "m1">>}
\* default auth_message of require_auth_task
AuthMessage == "Autenticacion requerida"

\* TaskStatus enum
PENDING == "pending"
IN_PROGRESS == "in-progress"
COMPLETED == "completed"
FAILED == "failed"
AUTH_REQUIRED == "auth-required"
TaskStatus == {PENDING, IN_PROGRESS, COMPLETED, FAILED, AUTH_REQUIRED}

VARIABLES
    tasks,        \* TaskManager._tasks : task_id -> TaskInfo
    contexts,     \* TaskManager._contexts : context_id -> list of task_id
    now,          \* the wall clock: the instant of the last get_timestamp() reading
    last,         \* the last operation called, its arguments and its outcome
    cm_contexts,  \* ContextManager._contexts : context_id -> ContextInfo
    task_manager, \* ContextManager._task_manager is set (not None)
    max_size,                \* EventQueue.max_size
    high_priority_queue,     \* EventQueue.high_priority_queue
    normal_priority_queue,   \* EventQueue.normal_priority_queue
    low_priority_queue,      \* EventQueue.low_priority_queue
    total_events_processed,  \* EventQueue.total_events_processed
    total_events_dropped,    \* EventQueue.total_events_dropped
    puts,                    \* the number of put calls made so far
    delivered,               \* for each event get has returned so far, in order: its
                             \* seq, its priority and the number of puts made before
    qlast,                   \* the last EventQueue call and what it returned
    qhist,                   \* the numbers of puts accepted, of puts rejected and of
                             \* events removed by clear so far
    lock,                    \* EventQueue._lock: the worker that holds it, or None
    procs,                   \* the workers that call put and get concurrently: where
                             \* each stands in its call, and what its last put did
    config,                  \* Orchestrator.config.orchestration
    strategy,                \* orchestrate: the strategy argument
    agents,                  \* orchestrate: the names of the agents of the list
    processed_input,         \* orchestrate: the processed input
    pc,                      \* where the orchestrate call stands
    agent_index,             \* the position of the for loop over the agents
    iteration,               \* _loop_orchestration: the iteration variable
    responses,               \* the result list being built
    iteration_responses,     \* _loop_orchestration: the records of the iteration
    gathered,                \* _parallel_orchestration: the results of the
                             \* finished _execute_agent_async tasks, by position
    trace,                   \* every call of an agent's execute and every return
                             \* or exception of one, in the order they happened
    agent_registry,          \* AgentDiscovery.agent_registry: the cards, in the
                             \* insertion order of the dict
    discovery_cache,         \* AgentDiscovery.discovery_cache : agent id -> last seen
    dlast                    \* the last AgentDiscovery call and what it returned

tmvars == <<tasks, contexts>>
cmvars == <<cm_contexts, task_manager>>
qvars == <<max_size, high_priority_queue, normal_priority_queue, low_priority_queue,
           total_events_processed, total_events_dropped, puts, delivered, qlast,
           qhist, lock, procs>>
ovars == <<config, strategy, agents, processed_input, pc, agent_index, iteration, responses,
           iteration_responses, gathered, trace>>
dvars == <<agent_registry, discovery_cache, dlast>>
vars == <<tasks, contexts, now, last, cmvars, qvars, ovars, dvars>>
\* what the TaskManager operations leave alone
others == <<cmvars, qvars, ovars, dvars>>

\* what `last` records of a call: the operation, its arguments, whether it
\* returned ("ok") or raised, and the value it returned (a count, or 1 for True);
\* value holds a dict argument (the updates of update_context) or a returned list
Outcome(op, task_id, context_id, status, result, ret) ==
    [op |-> op, task_id |-> task_id, context_id |-> context_id,
     skill_id |-> None, input_data |-> None,
     status |-> status, result |-> result, ret |-> ret, value |-> << >>]

\* get_timestamp(): reads the wall clock, which has advanced since the last reading
get_timestamp == now + 1
ClockRead == now < MaxTime /\ now' = now + 1

\* the TaskInfo built by create_task
TaskInfo(context_id, skill_id, input_data, created_at) ==
    [context_id |-> context_id, status |-> PENDING, skill_id |-> skill_id,
     input_data |-> input_data, output_data |-> None, error_message |-> None,
     created_at |-> created_at, updated_at |-> NoTime]

\* dict assignment d[k] = v
DictSet(d, k, v) == [x \in (DOMAIN d) \cup {k} |-> IF x = k THEN v ELSE d[x]]
\* del d[k]
DictDel(d, k) == [x \in (DOMAIN d) \ {k} |-> d[x]]
\* d.get(k, [])
DictGetList(d, k) == IF k \in DOMAIN d THEN d[k] ELSE <<>>

\* the elements of a list
Range(s) == {s[i] : i \in 1..Len(s)}

\* list.remove(x): removes the first occurrence of x
RECURSIVE ListRemove(_, _)
ListRemove(s, x) ==
    IF s = <<>> THEN <<>>
    ELSE IF Head(s) = x THEN Tail(s)
    ELSE <<Head(s)>> \o ListRemove(Tail(s), x)

\* _validate_task_info without its input_data test
validate_task_info_no_input(task_id, info) ==
    /\ task_id # EmptyStr
    /\ info.context_id # EmptyStr
    /\ info.skill_id # EmptyStr

\* TaskManager._validate_task_info: TRUE when no ValidationError is raised
validate_task_info(task_id, info) ==
    /\ task_id # EmptyStr
    /\ info.context_id # EmptyStr
    /\ info.skill_id # EmptyStr
    /\ info.input_data # EmptyDict

\* the valid_transitions table of _validate_status_transition
valid_transitions(s) ==
    CASE s = PENDING       -> {IN_PROGRESS, FAILED, AUTH_REQUIRED}
      [] s = IN_PROGRESS   -> {COMPLETED, FAILED, AUTH_REQUIRED}
      [] s = AUTH_REQUIRED -> {IN_PROGRESS, FAILED}
      [] s = COMPLETED     -> {}
      [] s = FAILED        -> {}

\* TaskManager._validate_status_transition: TRUE when no ValidationError is raised
validate_status_transition(current_status, new_status) ==
    new_status \in valid_transitions(current_status)

\* an id no object of the store refers to: what uuid.uuid4() returns
FreshTaskIds == {t \in TaskIds :
                    /\ t \notin DOMAIN tasks
                    /\ \A c \in DOMAIN contexts : t \notin Range(contexts[c])
                    /\ \A c \in DOMAIN cm_contexts : t \notin Range(cm_contexts[c].task_ids)}

\* TaskManager.get_task
get_task(task_id) == IF task_id \in DOMAIN tasks THEN tasks[task_id] ELSE None

\* the ids of the tasks TaskManager.get_tasks_by_context returns, in order
get_tasks_by_context(context_id) ==
    SelectSeq(DictGetList(contexts, context_id), LAMBDA t : t \in DOMAIN tasks)

(***************************************************************************)
(* TaskManager.create_task                                                 *)
(***************************************************************************)
create_task(context_id, skill_id, input_data, task_id_arg) ==
    \E task_id \in (IF task_id_arg = EmptyStr THEN FreshTaskIds ELSE {task_id_arg}) :
      LET task_info == TaskInfo(context_id, skill_id, input_data, get_timestamp)
          index == DictGetList(contexts, context_id)
      IN  /\ Len(index) < MaxIndexLen
          /\ IF validate_task_info(task_id, task_info)
             THEN /\ tasks' = DictSet(tasks, task_id, task_info)
                  /\ contexts' = DictSet(contexts, context_id, Append(index, task_id))
                  /\ last' = [Outcome("create_task", task_id, context_id, PENDING, "ok", 0)
                                EXCEPT !.skill_id = skill_id, !.input_data = input_data]
             ELSE /\ UNCHANGED <<tasks, contexts>>
                  /\ last' = [Outcome("create_task", task_id, context_id, PENDING,
                                        "A2AProtocolError", 0)
                                EXCEPT !.skill_id = skill_id, !.input_data = input_data]
          /\ ClockRead

CreateTask ==
    /\ \E context_id \in ContextIds \cup {EmptyStr},
       skill_id \in SkillIds \cup {EmptyStr},
       input_data \in InputData \cup {EmptyDict},
       task_id_arg \in TaskIds \cup {EmptyStr} :
        create_task(context_id, skill_id, input_data, task_id_arg)
    /\ UNCHANGED others

(***************************************************************************)
(* TaskManager.update_task_status and its wrappers                         *)
(***************************************************************************)
\* the fields of the stored TaskInfo are assigned first (lines 150-157) ...
UpdatedTaskInfo(task_info, status, output_data, error_message) ==
    [task_info EXCEPT
        !.status = status,
        !.updated_at = get_timestamp,
        !.output_data = IF output_data # None THEN output_data ELSE @,
        !.error_message = IF error_message # None THEN error_message ELSE @]

\* ... and the transition is validated afterwards, on the assigned status (line 160)
update_task_status(op, task_id, status, output_data, error_message) ==
    /\ IF task_id \notin DOMAIN tasks
       THEN /\ UNCHANGED tasks
            /\ last' = Outcome(op, task_id, EmptyStr, status, "A2AProtocolError", 0)
            /\ UNCHANGED now
       ELSE LET task_info == UpdatedTaskInfo(tasks[task_id], status, output_data, error_message)
            IN  /\ tasks' = [tasks EXCEPT ![task_id] = task_info]
                /\ last' = Outcome(op, task_id, task_info.context_id, status,
                                    IF validate_status_transition(task_info.status, status)
                                    THEN "ok" ELSE "A2AProtocolError", 0)
                /\ ClockRead
    /\ UNCHANGED contexts

UpdateTaskStatus ==
    /\ \E task_id \in TaskIds, status \in TaskStatus, payload \in Payloads :
        update_task_status("update_task_status", task_id, status, payload[1], payload[2])
    /\ UNCHANGED others

complete_task ==
    /\ \E task_id \in TaskIds, output_data \in OutputData :
        update_task_status("complete_task", task_id, COMPLETED, output_data, None)
    /\ UNCHANGED others

fail_task ==
    /\ \E task_id \in TaskIds, error_message \in ErrorMessages :
        update_task_status("fail_task", task_id, FAILED, None, error_message)
    /\ UNCHANGED others

start_task ==
    /\ \E task_id \in TaskIds :
        update_task_status("start_task", task_id, IN_PROGRESS, None, None)
    /\ UNCHANGED others

require_auth_task ==
    /\ \E task_id \in TaskIds :
        update_task_status("require_auth_task", task_id, AUTH_REQUIRED, None, AuthMessage)
    /\ UNCHANGED others

(***************************************************************************)
(* TaskManager.delete_task and TaskManager.delete_context                  *)
(***************************************************************************)
\* delete_task on a store (tk, cx): the store afterwards and the returned flag
DeleteTaskOn(tk, cx, task_id) ==
    IF task_id \notin DOMAIN tk
    THEN [tasks |-> tk, contexts |-> cx, ret |-> FALSE]
    ELSE LET context_id == tk[task_id].context_id
             cx1 == IF context_id \in DOMAIN cx
                    THEN LET l == IF task_id \in Range(cx[context_id])
                                  THEN ListRemove(cx[context_id], task_id)
                                  ELSE cx[context_id]
                         IN  IF l = <<>> THEN DictDel(cx, context_id)
                             ELSE [cx EXCEPT ![context_id] = l]
                    ELSE cx
         IN  [tasks |-> DictDel(tk, task_id), contexts |-> cx1, ret |-> TRUE]

delete_task(task_id) ==
    LET r == DeleteTaskOn(tasks, contexts, task_id)
    IN  /\ tasks' = r.tasks
        /\ contexts' = r.contexts
        /\ last' = Outcome("delete_task", task_id, EmptyStr, PENDING, "ok",
                            IF r.ret THEN 1 ELSE 0)
        /\ UNCHANGED now

DeleteTask ==
    /\ \E task_id \in TaskIds : delete_task(task_id)
    /\ UNCHANGED others

\* the for loop of delete_context: the list iterator is at position i of the
\* list object stored under context_id, which delete_task shrinks meanwhile;
\* once the entry is deleted from the dict the list is empty
RECURSIVE DeleteContextLoop(_, _, _, _, _)
DeleteContextLoop(tk, cx, context_id, i, deleted_count) ==
    LET task_ids == DictGetList(cx, context_id)
    IN  IF i > Len(task_ids)
        THEN [tasks |-> tk, contexts |-> cx, ret |-> deleted_count]
        ELSE LET r == DeleteTaskOn(tk, cx, task_ids[i])
             IN  DeleteContextLoop(r.tasks, r.contexts, context_id, i + 1,
                                   IF r.ret THEN deleted_count + 1 ELSE deleted_count)

DeleteContextOn(tk, cx, context_id) == DeleteContextLoop(tk, cx, context_id, 1, 0)

delete_context(context_id) ==
    LET r == DeleteContextOn(tasks, contexts, context_id)
    IN  /\ tasks' = r.tasks
        /\ contexts' = r.contexts
        /\ last' = Outcome("delete_context", EmptyStr, context_id, PENDING, "ok", r.ret)
        /\ UNCHANGED now

DeleteContext ==
    /\ \E context_id \in ContextIds : delete_context(context_id)
    /\ UNCHANGED others


(***************************************************************************)
(* TaskManager.cleanup_old_tasks                                           *)
(***************************************************************************)
\* the max_age_hours values cleanup_old_tasks is called with, one instant of the
\* clock being one hour
MaxAges == {0, 1}

\* datetime.utcnow() at the instant: a datetime without tzinfo
utcnow(instant) == [instant |-> instant, aware |-> FALSE]

\* datetime.fromisoformat(created_at.replace('Z', '+00:00')) of a string that
\* get_timestamp wrote, which is utcnow().isoformat() + "Z": the offset makes
\* the datetime aware
fromisoformat(created_at) == [instant |-> created_at, aware |-> TRUE]

\* a < b on datetimes is defined when both are naive or both are aware, and
\* raises TypeError otherwise
Comparable(a, b) == a.aware = b.aware

\* the second loop of cleanup_old_tasks: delete_task on each collected id
RECURSIVE DeleteCollected(_, _, _, _)
DeleteCollected(tk, cx, tasks_to_delete, deleted_count) ==
    IF tasks_to_delete = {}
    THEN [tasks |-> tk, contexts |-> cx, ret |-> deleted_count]
    ELSE LET task_id == CHOOSE t \in tasks_to_delete : TRUE
             r == DeleteTaskOn(tk, cx, task_id)
         IN  DeleteCollected(r.tasks, r.contexts, tasks_to_delete \ {task_id},
                             IF r.ret THEN deleted_count + 1 ELSE deleted_count)

\* TaskManager.cleanup_old_tasks: the TypeError of the comparison is no
\* ValueError, so it leaves the first loop and the outer handler returns 0
cleanup_old_tasks(max_age_hours) ==
    LET cutoff_time == utcnow(get_timestamp - max_age_hours)
        stamped == {t \in DOMAIN tasks : tasks[t].created_at # NoTime}
        raises == \E t \in stamped :
                      ~Comparable(fromisoformat(tasks[t].created_at), cutoff_time)
        tasks_to_delete ==
            {t \in stamped :
                fromisoformat(tasks[t].created_at).instant < cutoff_time.instant}
        r == IF raises THEN [tasks |-> tasks, contexts |-> contexts, ret |-> 0]
             ELSE DeleteCollected(tasks, contexts, tasks_to_delete, 0)
    IN  /\ tasks' = r.tasks
        /\ contexts' = r.contexts
        /\ last' = [Outcome("cleanup_old_tasks", EmptyStr, EmptyStr, PENDING, "ok", r.ret)
                      EXCEPT !.value = max_age_hours]
        /\ ClockRead

CleanupOldTasks ==
    /\ \E max_age_hours \in MaxAges : cleanup_old_tasks(max_age_hours)
    /\ UNCHANGED others

(***************************************************************************)
(* ContextManager                                                          *)
(***************************************************************************)
\* ContextInfo.__init__: the default name is built from the id, the default
\* description is a fixed text, absent metadata is the empty dict; created_at
\* and updated_at are two readings of the clock
DefaultName(context_id) == "Context-" \o context_id
DefaultDescription == "Contexto para agrupacion de tareas relacionadas"
EmptyMeta == << >>
ContextInfo(context_id, name, description, metadata) ==
    [name |-> IF name \in {None, EmptyStr} THEN DefaultName(context_id) ELSE name,
     description |-> IF description \in {None, EmptyStr} THEN DefaultDescription
                     ELSE description,
     metadata |-> IF metadata = None THEN EmptyMeta ELSE metadata,
     created_at |-> now + 1,
     updated_at |-> now + 2,
     task_ids |-> << >>]

\* ContextManager._validate_context_info: TRUE when no ValidationError is raised
validate_context_info(context_id, info) ==
    /\ context_id # EmptyStr
    /\ info.name # EmptyStr
    /\ info.description # EmptyStr

\* an id no stored context has: what uuid.uuid4() returns
FreshContextIds == {c \in ContextIds : c \notin DOMAIN cm_contexts /\ c \notin DOMAIN contexts}

CMOutcome(op, context_id, task_id, result, ret) ==
    Outcome(op, task_id, context_id, PENDING, result, ret)

\* ContextManager.create_context
create_context(name, description, metadata, context_id_arg) ==
    \E context_id \in (IF context_id_arg = EmptyStr THEN FreshContextIds
                       ELSE {context_id_arg}) :
      IF context_id \in DOMAIN cm_contexts
      THEN /\ last' = CMOutcome("create_context", context_id, EmptyStr,
                                "A2AProtocolError", 0)
           /\ UNCHANGED <<cm_contexts, now>>
      ELSE LET context_info == ContextInfo(context_id, name, description, metadata)
           IN  /\ now + 2 <= MaxTime
               /\ now' = now + 2
               /\ IF validate_context_info(context_id, context_info)
                  THEN /\ cm_contexts' = DictSet(cm_contexts, context_id, context_info)
                       /\ last' = CMOutcome("create_context", context_id, EmptyStr, "ok", 0)
                  ELSE /\ UNCHANGED cm_contexts
                       /\ last' = CMOutcome("create_context", context_id, EmptyStr,
                                            "A2AProtocolError", 0)

ContextNames == {"n1"}

CreateContext ==
    /\ \E name \in ContextNames \cup {None}, context_id_arg \in ContextIds \cup {EmptyStr} :
          create_context(name, None, None, context_id_arg)
    /\ UNCHANGED <<tmvars, task_manager, qvars, ovars, dvars>>

\* ContextInfo.add_task without the membership test
add_task_always(info, task_id) ==
    [info EXCEPT !.task_ids = Append(@, task_id), !.updated_at = get_timestamp]

\* ContextInfo.add_task
add_task(info, task_id) ==
    IF task_id \notin Range(info.task_ids)
    THEN [info EXCEPT !.task_ids = Append(@, task_id), !.updated_at = get_timestamp]
    ELSE info

\* ContextInfo.remove_task
remove_task(info, task_id) ==
    IF task_id \in Range(info.task_ids)
    THEN [info EXCEPT !.task_ids = ListRemove(@, task_id), !.updated_at = get_timestamp]
    ELSE info

\* ContextManager.add_task_to_context
add_task_to_context(context_id, task_id) ==
    IF context_id \notin DOMAIN cm_contexts
    THEN /\ last' = CMOutcome("add_task_to_context", context_id, task_id, "ok", 0)
         /\ UNCHANGED <<cm_contexts, now>>
    ELSE LET added == task_id \notin Range(cm_contexts[context_id].task_ids)
         IN  /\ cm_contexts' = [cm_contexts EXCEPT ![context_id] = add_task(@, task_id)]
             /\ IF added THEN ClockRead ELSE UNCHANGED now
             /\ last' = CMOutcome("add_task_to_context", context_id, task_id, "ok", 1)

AddTaskToContext ==
    /\ \E context_id \in ContextIds, task_id \in TaskIds :
          add_task_to_context(context_id, task_id)
    /\ UNCHANGED <<tmvars, task_manager, qvars, ovars, dvars>>

\* ContextManager.remove_task_from_context
remove_task_from_context(context_id, task_id) ==
    IF context_id \notin DOMAIN cm_contexts
    THEN /\ last' = CMOutcome("remove_task_from_context", context_id, task_id, "ok", 0)
         /\ UNCHANGED <<cm_contexts, now>>
    ELSE LET removed == task_id \in Range(cm_contexts[context_id].task_ids)
         IN  /\ cm_contexts' = [cm_contexts EXCEPT ![context_id] = remove_task(@, task_id)]
             /\ IF removed THEN ClockRead ELSE UNCHANGED now
             /\ last' = CMOutcome("remove_task_from_context", context_id, task_id, "ok",
                                  IF removed THEN 1 ELSE 0)

RemoveTaskFromContext ==
    /\ \E context_id \in ContextIds, task_id \in TaskIds :
          remove_task_from_context(context_id, task_id)
    /\ UNCHANGED <<tmvars, task_manager, qvars, ovars, dvars>>

\* the loop of ContextManager.delete_context over context_info.task_ids
RECURSIVE DeleteTasksOf(_, _, _)
DeleteTasksOf(tk, cx, task_ids) ==
    IF task_ids = << >>
    THEN [tasks |-> tk, contexts |-> cx]
    ELSE LET r == DeleteTaskOn(tk, cx, Head(task_ids))
         IN  DeleteTasksOf(r.tasks, r.contexts, Tail(task_ids))

\* ContextManager.delete_context that deletes the tasks whatever delete_tasks is
cm_delete_context_cascading(context_id, delete_tasks) ==
    LET op == IF delete_tasks THEN "ContextManager.delete_context(delete_tasks=True)"
              ELSE "ContextManager.delete_context(delete_tasks=False)"
    IN  IF context_id \notin DOMAIN cm_contexts
        THEN /\ last' = CMOutcome(op, context_id, EmptyStr, "ok", 0)
             /\ UNCHANGED <<cm_contexts, tasks, contexts>>
        ELSE LET r == DeleteTasksOf(tasks, contexts, cm_contexts[context_id].task_ids)
             IN  /\ tasks' = r.tasks
                 /\ contexts' = r.contexts
                 /\ cm_contexts' = DictDel(cm_contexts, context_id)
                 /\ last' = CMOutcome(op, context_id, EmptyStr, "ok", 1)

\* ContextManager.delete_context
cm_delete_context(context_id, delete_tasks) ==
    LET op == IF delete_tasks THEN "ContextManager.delete_context(delete_tasks=True)"
              ELSE "ContextManager.delete_context(delete_tasks=False)"
    IN  IF context_id \notin DOMAIN cm_contexts
        THEN /\ last' = CMOutcome(op, context_id, EmptyStr, "ok", 0)
             /\ UNCHANGED <<cm_contexts, tasks, contexts>>
        ELSE LET r == IF delete_tasks /\ task_manager
                      THEN DeleteTasksOf(tasks, contexts, cm_contexts[context_id].task_ids)
                      ELSE [tasks |-> tasks, contexts |-> contexts]
             IN  /\ tasks' = r.tasks
                 /\ contexts' = r.contexts
                 /\ cm_contexts' = DictDel(cm_contexts, context_id)
                 /\ last' = CMOutcome(op, context_id, EmptyStr, "ok", 1)

CMDeleteContext ==
    /\ \E context_id \in ContextIds, delete_tasks \in BOOLEAN :
          cm_delete_context(context_id, delete_tasks)
    /\ UNCHANGED <<now, task_manager, qvars, ovars, dvars>>

\* the list that keeps every id, whether or not the TaskManager has the task
get_context_tasks_unfiltered(context_id) ==
    IF context_id \notin DOMAIN cm_contexts THEN << >>
    ELSE IF ~task_manager THEN << >>
    ELSE cm_contexts[context_id].task_ids

\* the ids of the tasks ContextManager.get_context_tasks returns, in order
get_context_tasks(context_id) ==
    IF context_id \notin DOMAIN cm_contexts THEN << >>
    ELSE IF ~task_manager THEN << >>
    ELSE SelectSeq(cm_contexts[context_id].task_ids, LAMBDA t : t \in DOMAIN tasks)

\* ContextManager.get_context_tasks as a call: nothing is written
GetContextTasks ==
    /\ \E context_id \in ContextIds :
          last' = [CMOutcome("get_context_tasks", context_id, EmptyStr, "ok", 0)
                     EXCEPT !.value = get_context_tasks(context_id)]
    /\ UNCHANGED <<tmvars, now, cmvars, qvars, ovars, dvars>>

\* ContextManager.get_context_statistics: {} for an unknown context, else the
\* counts over the tasks get_context_tasks returns
get_context_statistics(context_id) ==
    IF context_id \notin DOMAIN cm_contexts THEN << >>
    ELSE LET context_info == cm_contexts[context_id]
             task_list == get_context_tasks(context_id)
             statuses == {tasks[task_list[i]].status : i \in 1..Len(task_list)}
         IN  [context_id |-> context_id,
              name |-> context_info.name,
              description |-> context_info.description,
              total_tasks |-> Len(task_list),
              status_counts |->
                  [status \in statuses |->
                      Cardinality({i \in 1..Len(task_list) :
                                      tasks[task_list[i]].status = status})],
              created_at |-> context_info.created_at,
              updated_at |-> context_info.updated_at,
              metadata |-> context_info.metadata]

\* the assignment that drops the keys the update does not name
DictReplace(d, other) == other

\* dict.update(other): the keys of other take its values, the others keep theirs
DictUpdate(d, other) ==
    [k \in (DOMAIN d) \cup (DOMAIN other) |-> IF k \in DOMAIN other THEN other[k] ELSE d[k]]

\* the updates update_context is called with
Updates == {[metadata |-> [k1 |-> "v1", k2 |-> "v1"]],
            [metadata |-> [k1 |-> "v2"]]}

\* the ContextInfo after the assignments of update_context
UpdatedContextInfo(context_info, updates) ==
    LET named == IF "name" \in DOMAIN updates
                 THEN [context_info EXCEPT !.name = updates.name]
                 ELSE context_info
        described == IF "description" \in DOMAIN updates
                     THEN [named EXCEPT !.description = updates.description]
                     ELSE named
        merged == IF "metadata" \in DOMAIN updates
                  THEN [described EXCEPT !.metadata = DictUpdate(@, updates.metadata)]
                  ELSE described
    IN  [merged EXCEPT !.updated_at = get_timestamp]

\* ContextManager.update_context: the stored object is assigned first and
\* validated afterwards
update_context(context_id, updates) ==
    IF context_id \notin DOMAIN cm_contexts
    THEN /\ last' = [CMOutcome("update_context", context_id, EmptyStr,
                               "A2AProtocolError", 0) EXCEPT !.value = updates]
         /\ UNCHANGED <<cm_contexts, now>>
    ELSE LET context_info == UpdatedContextInfo(cm_contexts[context_id], updates)
         IN  /\ cm_contexts' = [cm_contexts EXCEPT ![context_id] = context_info]
             /\ ClockRead
             /\ last' = [CMOutcome("update_context", context_id, EmptyStr,
                                   IF validate_context_info(context_id, context_info)
                                   THEN "ok" ELSE "A2AProtocolError", 0)
                           EXCEPT !.value = updates]

UpdateContext ==
    /\ \E context_id \in ContextIds, updates \in Updates :
          update_context(context_id, updates)
    /\ UNCHANGED <<tmvars, task_manager, qvars, ovars, dvars>>

\* the updates that make _validate_context_info fail
InvalidUpdates == {[name |-> EmptyStr],
                   [description |-> EmptyStr, metadata |-> [k1 |-> "v3"]]}

\* ContextManager.update_context called with an empty name or description
UpdateContextInvalid ==
    /\ \E context_id \in ContextIds, updates \in InvalidUpdates :
          update_context(context_id, updates)
    /\ UNCHANGED <<tmvars, task_manager, qvars, ovars, dvars>>

\* ContextInfo.get_task_count
get_task_count(info) == Len(info.task_ids)

\* the collection that takes every context
empty_contexts_all == DOMAIN cm_contexts

\* the contexts the first loop of cleanup_empty_contexts collects
empty_contexts == {context_id \in DOMAIN cm_contexts :
                      get_task_count(cm_contexts[context_id]) = 0}

\* ContextManager.cleanup_empty_contexts: delete_context(context_id) on each
\* collected id, which deletes no task and returns True
cleanup_empty_contexts ==
    /\ cm_contexts' = [context_id \in (DOMAIN cm_contexts) \ empty_contexts |->
                          cm_contexts[context_id]]
    /\ last' = CMOutcome("cleanup_empty_contexts", EmptyStr, EmptyStr, "ok",
                         Cardinality(empty_contexts))
    /\ UNCHANGED <<tasks, contexts, now>>

CleanupEmptyContexts ==
    /\ cleanup_empty_contexts
    /\ UNCHANGED <<task_manager, qvars, ovars, dvars>>

\* the context the tasks are created in
TaskContexts == {"c1"}

\* TaskManager.create_task called with a task id, a skill and input data
CreateValidTask ==
    /\ \E context_id \in TaskContexts, skill_id \in SkillIds, input_data \in InputData,
          task_id_arg \in TaskIds :
        create_task(context_id, skill_id, input_data, task_id_arg)
    /\ UNCHANGED others

(***************************************************************************)
(* EventQueue                                                              *)
(***************************************************************************)
\* get returning None
NoEvent == [event_id |-> None, event_type |-> None, priority |-> 0, seq |-> 0]

\* the event_data dicts the producers pass to put
EventDatas == {[content |-> "x"],
               [event_id |-> "e1", type |-> "response", content |-> "y"]}
\* the priorities the producers pass to put
Priorities == {-2, 0, 1}
\* the max_size values an EventQueue is built with
MaxSizes == {0, 1, 4}

\* dict.get(k, default)
DictGet(d, k, default) == IF k \in DOMAIN d THEN d[k] ELSE default

\* the Event built by put; seq is the number of the put call that built it
Event(event_data, priority, seq) ==
    [event_id |-> DictGet(event_data, "event_id", "event_" \o ToString(seq)),
     event_type |-> DictGet(event_data, "type", "message"),
     priority |-> priority,
     seq |-> seq]

\* EventQueue._get_total_size
get_total_size ==
    Len(high_priority_queue) + Len(normal_priority_queue) + Len(low_priority_queue)

\* EventQueue.size, is_empty, is_full
size == get_total_size
is_empty == get_total_size = 0
is_full == get_total_size >= max_size

\* the capacity test of put with > for >=
queue_full_off_by_one == get_total_size > max_size

\* the capacity test of put (line 102)
queue_full == get_total_size >= max_size

\* the lane selection of put with the normal events sent to the high lane
lane_of_normal_as_high(priority) ==
    IF priority >= 0 THEN "high" ELSE "low"

\* the lane put appends to (lines 119-124)
lane_of(priority) ==
    IF priority > 0 THEN "high" ELSE IF priority < 0 THEN "low" ELSE "normal"

\* EventQueue.put: the whole body runs under the lock
put(event_data, priority) ==
    /\ puts' = puts + 1
    /\ IF queue_full
       THEN /\ total_events_dropped' = total_events_dropped + 1
            /\ qlast' = [op |-> "put", event |-> NoEvent, accepted |-> FALSE]
            /\ qhist' = [qhist EXCEPT !.rejected = @ + 1]
            /\ UNCHANGED <<high_priority_queue, normal_priority_queue, low_priority_queue>>
       ELSE LET event == Event(event_data, priority, puts + 1)
                lane == lane_of(priority)
            IN  /\ high_priority_queue' =
                      IF lane = "high" THEN Append(high_priority_queue, event)
                      ELSE high_priority_queue
                /\ low_priority_queue' =
                      IF lane = "low" THEN Append(low_priority_queue, event)
                      ELSE low_priority_queue
                /\ normal_priority_queue' =
                      IF lane = "normal" THEN Append(normal_priority_queue, event)
                      ELSE normal_priority_queue
                /\ qlast' = [op |-> "put", event |-> event, accepted |-> TRUE]
                /\ qhist' = [qhist EXCEPT !.accepted = @ + 1]
                /\ UNCHANGED total_events_dropped
    /\ UNCHANGED <<max_size, total_events_processed, delivered>>

Put ==
    /\ puts < MaxPuts
    /\ \E event_data \in EventDatas, priority \in Priorities : put(event_data, priority)
    /\ UNCHANGED <<tmvars, now, last, cmvars, ovars, dvars, lock, procs>>

\* the events EventQueue.get_events_by_type returns, in order
get_events_by_type(event_type) ==
    SelectSeq(high_priority_queue \o normal_priority_queue \o low_priority_queue,
              LAMBDA event : event.event_type = event_type)

\* a popleft that leaves the event in the lane
popleft_keeps(queue) == queue

\* what deque.popleft() leaves in the lane
popleft(queue) == Tail(queue)

\* EventQueue.get: the whole body runs under the lock
get ==
    /\ IF high_priority_queue # << >>
       THEN /\ qlast' = [op |-> "get", event |-> Head(high_priority_queue), accepted |-> FALSE]
            /\ high_priority_queue' = popleft(high_priority_queue)
            /\ UNCHANGED <<normal_priority_queue, low_priority_queue>>
       ELSE IF normal_priority_queue # << >>
       THEN /\ qlast' = [op |-> "get", event |-> Head(normal_priority_queue), accepted |-> FALSE]
            /\ normal_priority_queue' = popleft(normal_priority_queue)
            /\ UNCHANGED <<high_priority_queue, low_priority_queue>>
       ELSE IF low_priority_queue # << >>
       THEN /\ qlast' = [op |-> "get", event |-> Head(low_priority_queue), accepted |-> FALSE]
            /\ low_priority_queue' = popleft(low_priority_queue)
            /\ UNCHANGED <<high_priority_queue, normal_priority_queue>>
       ELSE /\ qlast' = [op |-> "get", event |-> NoEvent, accepted |-> FALSE]
            /\ UNCHANGED <<high_priority_queue, normal_priority_queue, low_priority_queue>>
    /\ IF qlast'.event # NoEvent
       THEN /\ total_events_processed' = total_events_processed + 1
            /\ delivered' = Append(delivered, [seq |-> qlast'.event.seq,
                                                priority |-> qlast'.event.priority,
                                                puts |-> puts])
       ELSE UNCHANGED <<total_events_processed, delivered>>
    /\ UNCHANGED <<max_size, total_events_dropped, puts, qhist>>

Get ==
    /\ get
    /\ UNCHANGED <<tmvars, now, last, cmvars, ovars, dvars, lock, procs>>

\* a peek that returns the newest event of the lane, not the oldest
peek_newest ==
    /\ qlast' = [op |-> "peek",
                 event |-> IF high_priority_queue # << >>
                           THEN high_priority_queue[Len(high_priority_queue)]
                           ELSE IF normal_priority_queue # << >>
                           THEN normal_priority_queue[Len(normal_priority_queue)]
                           ELSE IF low_priority_queue # << >>
                           THEN low_priority_queue[Len(low_priority_queue)]
                           ELSE NoEvent,
                 accepted |-> FALSE]
    /\ UNCHANGED <<max_size, high_priority_queue, normal_priority_queue, low_priority_queue,
                   total_events_processed, total_events_dropped, puts, delivered, qhist>>

\* EventQueue.peek
peek ==
    /\ qlast' = [op |-> "peek",
                 event |-> IF high_priority_queue # << >> THEN high_priority_queue[1]
                           ELSE IF normal_priority_queue # << >> THEN normal_priority_queue[1]
                           ELSE IF low_priority_queue # << >> THEN low_priority_queue[1]
                           ELSE NoEvent,
                 accepted |-> FALSE]
    /\ UNCHANGED <<max_size, high_priority_queue, normal_priority_queue, low_priority_queue,
                   total_events_processed, total_events_dropped, puts, delivered, qhist>>

Peek ==
    /\ peek
    /\ UNCHANGED <<tmvars, now, last, cmvars, ovars, dvars, lock, procs>>

\* the event types get_events_by_type is asked for
AskedTypes == {"message", "response", "task"}

\* EventQueue.get_events_by_type as a call: the lanes are read under the lock
GetEventsByType ==
    /\ \E event_type \in AskedTypes :
          qlast' = [op |-> "get_events_by_type", event |-> NoEvent, accepted |-> FALSE,
                    event_type |-> event_type, events |-> get_events_by_type(event_type)]
    /\ UNCHANGED <<max_size, high_priority_queue, normal_priority_queue, low_priority_queue,
                   total_events_processed, total_events_dropped, puts, delivered, qhist>>
    /\ UNCHANGED <<tmvars, now, last, cmvars, ovars, dvars, lock, procs>>

\* a clear that resets the statistics with the lanes
clear_resets ==
    /\ high_priority_queue' = << >>
    /\ normal_priority_queue' = << >>
    /\ low_priority_queue' = << >>
    /\ total_events_processed' = 0
    /\ total_events_dropped' = 0
    /\ qlast' = [op |-> "clear", event |-> NoEvent, accepted |-> FALSE]
    /\ qhist' = [qhist EXCEPT !.cleared = @ + get_total_size]
    /\ UNCHANGED <<max_size, puts, delivered>>

\* EventQueue.clear
clear ==
    /\ high_priority_queue' = << >>
    /\ normal_priority_queue' = << >>
    /\ low_priority_queue' = << >>
    /\ qlast' = [op |-> "clear", event |-> NoEvent, accepted |-> FALSE]
    /\ qhist' = [qhist EXCEPT !.cleared = @ + get_total_size]
    /\ UNCHANGED <<max_size, total_events_processed, total_events_dropped, puts, delivered>>

Clear ==
    /\ clear
    /\ UNCHANGED <<tmvars, now, last, cmvars, ovars, dvars, lock, procs>>

(***************************************************************************)
(* EventQueue.put and EventQueue.get called by concurrent workers          *)
(***************************************************************************)
\* two producers and one consumer share the queue
Producers == {"p1", "p2"}
Consumers == {"g1"}
Workers == Producers \cup Consumers
\* the priority each producer passes, and the event_data
RacePriority == [p1 |-> 1, p2 |-> 0]
RaceData == [content |-> "x"]
\* the max_size values of the shared queue
RaceSizes == {1, 2}

\* a worker that is in no call and has made no put
Idle == [pc |-> "idle", priority |-> 0, seq |-> 0, size_at_call |-> 0,
         effects_at_call |-> 0, full |-> FALSE, outcome |-> "none", effect_no |-> 0]

\* the number of puts and gets that have taken effect: every accepted event is
\* queued or processed, every other put that took effect was dropped
Effects == get_total_size + 2 * total_events_processed + total_events_dropped

\* an acquire that does not wait for the holder
lock_free_ignored == TRUE

\* asyncio.Lock: acquire waits until nobody holds the lock
lock_free == lock = None

WFrame == UNCHANGED <<tmvars, now, last, cmvars, ovars, dvars>>

\* a producer calls put: the call is pending until it gets the lock
PutCall(w) ==
    /\ procs[w].pc = "idle"
    /\ puts < MaxPuts
    /\ puts' = puts + 1
    /\ procs' = [procs EXCEPT ![w] =
                    [Idle EXCEPT !.pc = "acquire", !.priority = RacePriority[w],
                                 !.seq = puts + 1, !.size_at_call = get_total_size,
                                 !.effects_at_call = Effects]]
    /\ UNCHANGED <<max_size, high_priority_queue, normal_priority_queue,
                   low_priority_queue, total_events_processed, total_events_dropped,
                   delivered, qlast, qhist, lock>>
    /\ WFrame

\* async with self._lock, entered by a producer
PutAcquire(w) ==
    /\ procs[w].pc = "acquire"
    /\ lock_free
    /\ lock' = w
    /\ procs' = [procs EXCEPT ![w].pc = "check"]
    /\ UNCHANGED <<max_size, high_priority_queue, normal_priority_queue,
                   low_priority_queue, total_events_processed, total_events_dropped,
                   puts, delivered, qlast, qhist>>
    /\ WFrame

\* the capacity test of put (line 102)
PutCheck(w) ==
    /\ procs[w].pc = "check"
    /\ procs' = [procs EXCEPT ![w].pc = "effect", ![w].full = queue_full]
    /\ UNCHANGED <<max_size, high_priority_queue, normal_priority_queue,
                   low_priority_queue, total_events_processed, total_events_dropped,
                   puts, delivered, qlast, qhist, lock>>
    /\ WFrame

\* the rest of put: the drop counter or the lane is written and the lock released
PutEffect(w) ==
    /\ procs[w].pc = "effect"
    /\ IF procs[w].full
       THEN /\ total_events_dropped' = total_events_dropped + 1
            /\ qlast' = [op |-> "put", event |-> NoEvent, accepted |-> FALSE]
            /\ qhist' = [qhist EXCEPT !.rejected = @ + 1]
            /\ UNCHANGED <<high_priority_queue, normal_priority_queue, low_priority_queue>>
       ELSE LET event == Event(RaceData, procs[w].priority, procs[w].seq)
                lane == lane_of(procs[w].priority)
            IN  /\ high_priority_queue' =
                      IF lane = "high" THEN Append(high_priority_queue, event)
                      ELSE high_priority_queue
                /\ low_priority_queue' =
                      IF lane = "low" THEN Append(low_priority_queue, event)
                      ELSE low_priority_queue
                /\ normal_priority_queue' =
                      IF lane = "normal" THEN Append(normal_priority_queue, event)
                      ELSE normal_priority_queue
                /\ qlast' = [op |-> "put", event |-> event, accepted |-> TRUE]
                /\ qhist' = [qhist EXCEPT !.accepted = @ + 1]
                /\ UNCHANGED total_events_dropped
    /\ procs' = [procs EXCEPT ![w].pc = "idle",
                              ![w].outcome = IF procs[w].full THEN "dropped" ELSE "accepted",
                              ![w].effect_no = Effects + 1]
    /\ lock' = IF lock = w THEN None ELSE lock
    /\ UNCHANGED <<max_size, total_events_processed, puts, delivered>>
    /\ WFrame

\* async with self._lock, entered by the consumer that calls get
GetAcquire(w) ==
    /\ procs[w].pc = "idle"
    /\ lock_free
    /\ lock' = w
    /\ procs' = [procs EXCEPT ![w].pc = "effect"]
    /\ UNCHANGED <<max_size, high_priority_queue, normal_priority_queue,
                   low_priority_queue, total_events_processed, total_events_dropped,
                   puts, delivered, qlast, qhist>>
    /\ WFrame

\* the body of get and the release of the lock
GetEffect(w) ==
    /\ procs[w].pc = "effect"
    /\ get
    /\ procs' = [procs EXCEPT ![w].pc = "idle"]
    /\ lock' = IF lock = w THEN None ELSE lock
    /\ WFrame

\* EventQueue.__init__
QueueNew ==
    /\ high_priority_queue = << >>
    /\ normal_priority_queue = << >>
    /\ low_priority_queue = << >>
    /\ total_events_processed = 0
    /\ total_events_dropped = 0
    /\ puts = 0
    /\ delivered = << >>
    /\ qlast = [op |-> "init", event |-> NoEvent, accepted |-> FALSE]
    /\ qhist = [accepted |-> 0, rejected |-> 0, cleared |-> 0]
    /\ lock = None
    /\ procs = [w \in Workers |-> Idle]

\* no EventQueue is in use
QueueIdle ==
    /\ max_size = 0
    /\ QueueNew

(***************************************************************************)
(* Orchestrator                                                            *)
(***************************************************************************)
\* cap on the length of the agent list handed to orchestrate
MaxAgents == 3
\* cap on the number of (agent, iteration) attempts of one Loop orchestration
MaxAttempts == 6

\* the default of config.orchestration.get("max_iterations", 5)
DefaultMaxIterations == 5
\* RequestContext.metadata carries no iteration outside _loop_orchestration
NoIteration == -1

\* OrchestrationStrategy enum
SEQUENTIAL == "sequential"
PARALLEL == "parallel"
LOOP == "loop"
CONDITIONAL == "conditional"
OrchestrationStrategy == {SEQUENTIAL, PARALLEL, LOOP, CONDITIONAL}
\* the strategy strings a caller passes; "bogus" is no member of the enum
StrategyArgs == OrchestrationStrategy \cup {"bogus"}

\* the config.orchestration dicts an Orchestrator is built with
Configs == {<< >>, [max_iterations |-> 1], [max_iterations |-> 2]}
\* the processed inputs handed to orchestrate
Inputs == {[text |-> "hola"], [type |-> "text"]}

\* what one call of agent.execute(context, event_queue) does: it puts one
\* response event and returns, returns without putting an event, or raises
Behaviours == {"respond", "silent", "raise"}
\* the event_data of the response event an agent puts
ResponseData == [type |-> "response", content |-> "r"]
\* str(e) of the exception an agent raises
ErrorText == "boom"

\* agent.name of the i-th agent of the list
AgentName(i) == "agent_" \o ToString(i)
AgentList(n) == [i \in 1..n |-> AgentName(i)]

\* the message of the RequestContext: processed_input.get("text", "")
RequestContext(input, it) ==
    [message |-> DictGet(input, "text", EmptyStr), iteration |-> it]

\* event_queue.get() on the fresh EventQueue after agent.execute returned:
\* the event the agent put, or None
drained(behaviour) ==
    IF behaviour = "respond" THEN Event(ResponseData, 0, 1) ELSE NoEvent

\* response.get("status")
Status(response) == IF "status" \in DOMAIN response THEN response.status ELSE None

\* an entry of trace
Ev(ev, i, it) == [ev |-> ev, agent |-> i, iteration |-> it]
\* the entry for the end of an execute call
Ended(behaviour, i, it) == Ev(IF behaviour = "raise" THEN "raise" ELSE "return", i, it)

\* a _should_stop_loop that never stops
should_stop_loop_never(iter_responses) == FALSE

\* Orchestrator._should_stop_loop
should_stop_loop(iter_responses) ==
    \E i \in 1..Len(iter_responses) : Status(iter_responses[i]) = "failed"

\* Orchestrator._should_execute_agent
should_execute_agent(agent, input) == TRUE

\* max_iterations of _loop_orchestration (line 208)
max_iterations == DictGet(config, "max_iterations", DefaultMaxIterations)

\* Orchestrator.__init__
OrchestratorNew ==
    /\ strategy = None
    /\ agents = << >>
    /\ processed_input = << >>
    /\ pc = "idle"
    /\ agent_index = 0
    /\ iteration = NoIteration
    /\ responses = << >>
    /\ iteration_responses = << >>
    /\ gathered = << >>
    /\ trace = << >>

\* an Orchestrator built with the default configuration and not called
OrchestratorIdle ==
    /\ config = << >>
    /\ OrchestratorNew

\* the frame of the Orchestrator's steps
OFrame == UNCHANGED <<tmvars, now, last, cmvars, qvars, config, dvars>>

\* orchestrate: the strategy is looked up and its function is entered
orchestrate(agent_list, input, strategy_arg) ==
    /\ pc = "idle"
    /\ strategy' = strategy_arg
    /\ agents' = agent_list
    /\ processed_input' = input
    /\ agent_index' = 1
    /\ IF strategy_arg \notin OrchestrationStrategy
       THEN /\ pc' = "OrchestrationError"
            /\ UNCHANGED <<iteration, trace>>
       ELSE IF strategy_arg = LOOP
       THEN /\ pc' = "loop"
            /\ iteration' = 0
            /\ trace' = IF max_iterations > 0
                        THEN Append(trace, Ev("iteration", 0, 0)) ELSE trace
       ELSE /\ pc' = "loop"
            /\ UNCHANGED <<iteration, trace>>
    /\ UNCHANGED <<responses, iteration_responses, gathered>>

Orchestrate ==
    /\ \E n \in 0..MaxAgents, input \in Inputs, strategy_arg \in StrategyArgs :
          /\ strategy_arg = LOOP => n * max_iterations <= MaxAttempts
          /\ orchestrate(AgentList(n), input, strategy_arg)
    /\ OFrame

\* the for loop of a strategy calls execute of the agent at agent_index
CallAgent(s, it) ==
    /\ strategy = s
    /\ pc = "loop"
    /\ agent_index <= Len(agents)
    /\ pc' = "await"
    /\ trace' = Append(trace, Ev("call", agent_index, it))
    /\ UNCHANGED <<strategy, agents, processed_input, agent_index, iteration, responses,
                   iteration_responses, gathered>>

\* the ways a call of agent.execute never completes: it awaits something that
\* never comes, or it runs on without reaching an await
Hangs == {"suspend", "block"}

\* an await that is given up after a while
completes_in_time(i, it) == TRUE

\* await agent.execute(context, event_queue) goes on when the call has
\* completed: the call of agent i in iteration it has not hung
completes(i, it) == \A kind \in Hangs : Ev(kind, i, it) \notin Range(trace)

\* the event loop runs one coroutine at a time and switches at an await: an
\* execute that runs on without reaching one keeps every task from running
Blocked == \E k \in 1..Len(trace) : trace[k].ev = "block"

\* the records of _sequential_orchestration (lines 137-141 and 145-149)
SequentialRecord(agent, behaviour) ==
    IF behaviour = "raise"
    THEN <<[agent |-> agent, error |-> ErrorText, status |-> "failed"]>>
    ELSE IF drained(behaviour) # NoEvent
    THEN <<[agent |-> agent, response |-> ResponseData.content, metadata |-> EmptyDict]>>
    ELSE << >>

\* the index a for loop over the agents retries when the agent raised
next_index_retry(i, behaviour) == IF behaviour = "raise" THEN i ELSE i + 1

\* a for loop over the agents that is left when an agent raises
next_index_breaks(i, behaviour) == IF behaviour = "raise" THEN Len(agents) + 1 ELSE i + 1

\* the index the for loop over the agents goes to after an agent's execute
\* has returned or raised: the except clause is inside the loop body
next_index(i, behaviour) == i + 1

\* a loop over the agents that is left when an agent raises
after_agent_halts(behaviour) == IF behaviour = "raise" THEN "done" ELSE "loop"

\* where _sequential_orchestration goes on after the try statement (120-149)
after_agent(behaviour) == "loop"

\* _sequential_orchestration, lines 120-132: the next agent's execute is called
SequentialCall ==
    /\ CallAgent(SEQUENTIAL, NoIteration)
    /\ OFrame

\* _sequential_orchestration, lines 132-149: execute returns or raises, the
\* queue is drained and the record, if any, is appended
SequentialReturn ==
    /\ strategy = SEQUENTIAL
    /\ pc = "await"
    /\ completes(agent_index, iteration)
    /\ \E behaviour \in Behaviours :
          /\ responses' = responses \o SequentialRecord(agents[agent_index], behaviour)
          /\ trace' = Append(trace, Ended(behaviour, agent_index, NoIteration))
          /\ agent_index' = next_index(agent_index, behaviour)
          /\ pc' = after_agent(behaviour)
    /\ UNCHANGED <<strategy, agents, processed_input, iteration, iteration_responses,
                   gathered>>
    /\ OFrame

\* the for loop of a strategy is exhausted and orchestrate returns responses
ReturnResponses(s) ==
    /\ strategy = s
    /\ pc = "loop"
    /\ agent_index > Len(agents)
    /\ pc' = "done"
    /\ UNCHANGED <<strategy, agents, processed_input, agent_index, iteration, responses,
                   iteration_responses, gathered, trace>>

\* _sequential_orchestration, line 151
SequentialDone ==
    /\ ReturnResponses(SEQUENTIAL)
    /\ OFrame

\* _execute_agent_async with the exception recorded as no_response
execute_agent_async_swallows(agent, behaviour) ==
    IF behaviour = "raise" \/ drained(behaviour) = NoEvent
    THEN [agent |-> agent, status |-> "no_response"]
    ELSE [agent |-> agent, response |-> ResponseData.content, metadata |-> EmptyDict,
          status |-> "completed"]

\* the record _execute_agent_async returns (lines 333-352)
execute_agent_async(agent, behaviour) ==
    IF behaviour = "raise"
    THEN [agent |-> agent, error |-> ErrorText, status |-> "failed"]
    ELSE IF drained(behaviour) # NoEvent
    THEN [agent |-> agent, response |-> ResponseData.content, metadata |-> EmptyDict,
          status |-> "completed"]
    ELSE [agent |-> agent, status |-> "no_response"]

\* the positions of the tasks in the order they finished
CompletionOrder ==
    LET ends == SelectSeq(trace, LAMBDA e : e.ev \in {"return", "raise"})
    IN  [k \in 1..Len(ends) |-> ends[k].agent]

\* a gather that lists the results in the order the tasks finished
gather_as_completed(results, order) == [k \in 1..Len(order) |-> results[order[k]]]

\* asyncio.gather(*tasks): the results in the order of the tasks (line 176);
\* none is an exception, so that lines 180-188 copy the list
gather(results, order) == [i \in 1..Len(order) |-> results[i]]

\* _parallel_orchestration: the task of the next agent starts and calls execute;
\* the event loop starts the tasks in the order gather was given them
ParallelCall ==
    /\ strategy = PARALLEL
    /\ pc = "loop"
    /\ ~Blocked
    /\ agent_index <= Len(agents)
    /\ agent_index' = agent_index + 1
    /\ trace' = Append(trace, Ev("call", agent_index, NoIteration))
    /\ UNCHANGED <<strategy, agents, processed_input, pc, iteration, responses,
                   iteration_responses, gathered>>
    /\ OFrame

\* _execute_agent_async: the execute call of a started task returns or raises,
\* and the task finishes with its record
ParallelReturn ==
    /\ strategy = PARALLEL
    /\ pc = "loop"
    /\ ~Blocked
    /\ \E i \in 1..(agent_index - 1), behaviour \in Behaviours :
          /\ i \notin DOMAIN gathered
          /\ completes(i, NoIteration)
          /\ gathered' = DictSet(gathered, i, execute_agent_async(agents[i], behaviour))
          /\ trace' = Append(trace, Ended(behaviour, i, NoIteration))
    /\ UNCHANGED <<strategy, agents, processed_input, pc, agent_index, iteration, responses,
                   iteration_responses>>
    /\ OFrame

\* _parallel_orchestration, lines 176-190: every task has finished
ParallelJoin ==
    /\ strategy = PARALLEL
    /\ pc = "loop"
    /\ agent_index > Len(agents)
    /\ DOMAIN gathered = 1..Len(agents)
    /\ responses' = gather(gathered, CompletionOrder)
    /\ pc' = "done"
    /\ UNCHANGED <<strategy, agents, processed_input, agent_index, iteration,
                   iteration_responses, gathered, trace>>
    /\ OFrame

\* the records of _loop_orchestration (lines 229-234 and 238-243)
LoopRecord(agent, it, behaviour) ==
    IF behaviour = "raise"
    THEN <<[agent |-> agent, iteration |-> it, error |-> ErrorText, status |-> "failed"]>>
    ELSE IF drained(behaviour) # NoEvent
    THEN <<[agent |-> agent, iteration |-> it, response |-> ResponseData.content,
            metadata |-> EmptyDict]>>
    ELSE << >>

\* _loop_orchestration, lines 213-224
LoopCall ==
    /\ iteration < max_iterations
    /\ CallAgent(LOOP, iteration)
    /\ OFrame

\* _loop_orchestration, lines 224-243
LoopReturn ==
    /\ strategy = LOOP
    /\ pc = "await"
    /\ completes(agent_index, iteration)
    /\ \E behaviour \in Behaviours :
          /\ iteration_responses' =
                iteration_responses \o LoopRecord(agents[agent_index], iteration, behaviour)
          /\ trace' = Append(trace, Ended(behaviour, agent_index, iteration))
          /\ agent_index' = next_index(agent_index, behaviour)
    /\ pc' = "loop"
    /\ UNCHANGED <<strategy, agents, processed_input, iteration, responses, gathered>>
    /\ OFrame

\* _loop_orchestration, lines 245-249 and 210: the iteration ends, and the
\* next one starts unless the loop stops or is exhausted
LoopEndIteration ==
    /\ strategy = LOOP
    /\ pc = "loop"
    /\ iteration < max_iterations
    /\ agent_index > Len(agents)
    /\ responses' = responses \o iteration_responses
    /\ IF should_stop_loop(iteration_responses)
       THEN /\ pc' = "done"
            /\ UNCHANGED <<iteration, agent_index, iteration_responses, trace>>
       ELSE /\ iteration' = iteration + 1
            /\ agent_index' = 1
            /\ iteration_responses' = << >>
            /\ trace' = IF iteration + 1 < max_iterations
                        THEN Append(trace, Ev("iteration", 0, iteration + 1))
                        ELSE trace
            /\ UNCHANGED pc
    /\ UNCHANGED <<strategy, agents, processed_input, gathered>>
    /\ OFrame

\* _loop_orchestration, line 251, reached when range(max_iterations) is exhausted
LoopDone ==
    /\ strategy = LOOP
    /\ pc = "loop"
    /\ iteration >= max_iterations
    /\ pc' = "done"
    /\ UNCHANGED <<strategy, agents, processed_input, agent_index, iteration, responses,
                   iteration_responses, gathered, trace>>
    /\ OFrame

\* the records of _conditional_orchestration (lines 284-289 and 293-298)
ConditionalRecord(agent, behaviour) ==
    IF behaviour = "raise"
    THEN <<[agent |-> agent, error |-> ErrorText, status |-> "failed",
            condition_met |-> TRUE]>>
    ELSE IF drained(behaviour) # NoEvent
    THEN <<[agent |-> agent, response |-> ResponseData.content, metadata |-> EmptyDict,
            condition_met |-> TRUE]>>
    ELSE << >>

\* _conditional_orchestration, lines 270-280 and 299-305: the condition of the
\* next agent is evaluated; its execute is called, or it is recorded as skipped
ConditionalCall ==
    /\ strategy = CONDITIONAL
    /\ pc = "loop"
    /\ agent_index <= Len(agents)
    /\ IF should_execute_agent(agents[agent_index], processed_input)
       THEN /\ pc' = "await"
            /\ trace' = Append(trace, Ev("call", agent_index, NoIteration))
            /\ UNCHANGED <<agent_index, responses>>
       ELSE /\ responses' = Append(responses,
                                   [agent |-> agents[agent_index], status |-> "skipped",
                                    condition_met |-> FALSE,
                                    reason |-> "Condition not met"])
            /\ agent_index' = agent_index + 1
            /\ UNCHANGED <<pc, trace>>
    /\ UNCHANGED <<strategy, agents, processed_input, iteration, iteration_responses,
                   gathered>>
    /\ OFrame

\* _conditional_orchestration, lines 280-298
ConditionalReturn ==
    /\ strategy = CONDITIONAL
    /\ pc = "await"
    /\ completes(agent_index, iteration)
    /\ \E behaviour \in Behaviours :
          /\ responses' = responses \o ConditionalRecord(agents[agent_index], behaviour)
          /\ trace' = Append(trace, Ended(behaviour, agent_index, NoIteration))
          /\ agent_index' = next_index(agent_index, behaviour)
    /\ pc' = "loop"
    /\ UNCHANGED <<strategy, agents, processed_input, iteration, iteration_responses,
                   gathered>>
    /\ OFrame

\* _conditional_orchestration, line 307
ConditionalDone ==
    /\ ReturnResponses(CONDITIONAL)
    /\ OFrame

(***************************************************************************)
(* Agents whose execute never completes                                    *)
(***************************************************************************)
\* the execute call that _sequential_orchestration, _loop_orchestration or
\* _conditional_orchestration awaits hangs
AgentHangs ==
    /\ strategy \in {SEQUENTIAL, LOOP, CONDITIONAL}
    /\ pc = "await"
    /\ completes(agent_index, iteration)
    /\ \E kind \in Hangs : trace' = Append(trace, Ev(kind, agent_index, iteration))
    /\ UNCHANGED <<strategy, agents, processed_input, pc, agent_index, iteration, responses,
                   iteration_responses, gathered>>
    /\ OFrame

\* the execute call of a started task of _parallel_orchestration hangs
TaskHangs ==
    /\ strategy = PARALLEL
    /\ pc = "loop"
    /\ ~Blocked
    /\ \E i \in 1..(agent_index - 1), kind \in Hangs :
          /\ i \notin DOMAIN gathered
          /\ completes(i, NoIteration)
          /\ trace' = Append(trace, Ev(kind, i, NoIteration))
    /\ UNCHANGED <<strategy, agents, processed_input, pc, agent_index, iteration, responses,
                   iteration_responses, gathered>>
    /\ OFrame

(***************************************************************************)
(* The EventQueue of one agent invocation                                  *)
(***************************************************************************)
\* the default max_size of EventQueue.__init__
default_max_size == 1000

\* a queue that still holds a high event of some other invocation
EventQueueLeftOver ==
    [high |-> <<[content |-> [agent |-> "agent_0", iteration |-> NoIteration, no |-> 1],
                 metadata |-> EmptyDict, priority |-> 1]>>,
     normal |-> << >>, low |-> << >>]

\* EventQueue(): the queue an invocation builds for its agent, the three lanes empty
EventQueueNew == [high |-> << >>, normal |-> << >>, low |-> << >>]

\* EventQueue.put on the queue of an invocation
PutEvent(queue, event_data, priority) ==
    IF Len(queue.high) + Len(queue.normal) + Len(queue.low) >= default_max_size
    THEN queue
    ELSE LET event == [content |-> DictGet(event_data, "content", None),
                       metadata |-> DictGet(event_data, "metadata", EmptyDict),
                       priority |-> priority]
         IN  IF priority > 0 THEN [queue EXCEPT !.high = Append(@, event)]
             ELSE IF priority < 0 THEN [queue EXCEPT !.low = Append(@, event)]
             ELSE [queue EXCEPT !.normal = Append(@, event)]

\* EventQueue.get on the queue of an invocation: the event returned, or None
GetEvent(queue) ==
    IF queue.high # << >> THEN Head(queue.high)
    ELSE IF queue.normal # << >> THEN Head(queue.normal)
    ELSE IF queue.low # << >> THEN Head(queue.low)
    ELSE NoEvent

\* what one call of agent.execute does with its queue: the priorities of the
\* events it puts, in the order of the puts, and whether it raises afterwards
Placements == {[puts |-> << >>, raises |-> FALSE],
               [puts |-> <<-1, 1>>, raises |-> FALSE],
               [puts |-> <<0, 0>>, raises |-> FALSE],
               [puts |-> <<0>>, raises |-> TRUE]}

\* the puts of agent.execute: the k-th event of an invocation carries the name of
\* its agent, the iteration of the invocation and k as its content
RECURSIVE PutAll(_, _, _, _, _)
PutAll(queue, agent, it, priorities, k) ==
    IF k > Len(priorities) THEN queue
    ELSE PutAll(PutEvent(queue,
                         [type |-> "response",
                          content |-> [agent |-> agent, iteration |-> it, no |-> k]],
                         priorities[k]),
                agent, it, priorities, k + 1)

\* the records the strategies build from the event drained from the queue, or
\* from the exception (lines 136-149, 227-243, 282-298 and 333-352)
InvocationRecord(s, agent, it, raises, response) ==
    LET base == IF s = LOOP THEN [agent |-> agent, iteration |-> it]
                ELSE [agent |-> agent]
        with(r, k, v) == [x \in (DOMAIN r) \cup {k} |-> IF x = k THEN v ELSE r[x]]
        met(r) == IF s = CONDITIONAL THEN with(r, "condition_met", TRUE) ELSE r
    IN  IF raises
        THEN <<met(with(with(base, "error", ErrorText), "status", "failed"))>>
        ELSE IF response # NoEvent
        THEN LET r == with(with(base, "response", response.content),
                           "metadata", response.metadata)
             IN  <<IF s = PARALLEL THEN with(r, "status", "completed") ELSE met(r)>>
        ELSE IF s = PARALLEL THEN <<with(base, "status", "no_response")>>
        ELSE << >>

\* one invocation: EventQueue(), await agent.execute(context, event_queue) and
\* event_queue.get(); the record, if any
Invocation(s, i, it, placement) ==
    InvocationRecord(s, agents[i], it, placement.raises,
                     GetEvent(PutAll(EventQueueNew, agents[i], it, placement.puts, 1)))

\* what an invocation leaves in trace: how it ended and what the agent put
Placed(placement, i, it) ==
    [ev |-> IF placement.raises THEN "raise" ELSE "return", agent |-> i,
     iteration |-> it, placed |-> placement.puts]

\* _sequential_orchestration, lines 129-149, and _conditional_orchestration,
\* lines 278-298, with an agent that puts several events
InvokeInTurn ==
    /\ strategy \in {SEQUENTIAL, CONDITIONAL}
    /\ pc = "await"
    /\ \E placement \in Placements :
          /\ responses' = responses
                \o Invocation(strategy, agent_index, NoIteration, placement)
          /\ trace' = Append(trace, Placed(placement, agent_index, NoIteration))
    /\ agent_index' = agent_index + 1
    /\ pc' = "loop"
    /\ UNCHANGED <<strategy, agents, processed_input, iteration, iteration_responses,
                   gathered>>
    /\ OFrame

\* _loop_orchestration, lines 224-243, with an agent that puts several events
InvokeInLoop ==
    /\ strategy = LOOP
    /\ pc = "await"
    /\ \E placement \in Placements :
          /\ iteration_responses' = iteration_responses
                \o Invocation(LOOP, agent_index, iteration, placement)
          /\ trace' = Append(trace, Placed(placement, agent_index, iteration))
    /\ agent_index' = agent_index + 1
    /\ pc' = "loop"
    /\ UNCHANGED <<strategy, agents, processed_input, iteration, responses, gathered>>
    /\ OFrame

\* _execute_agent_async, lines 324-352, with an agent that puts several events
InvokeInTask ==
    /\ strategy = PARALLEL
    /\ pc = "loop"
    /\ \E i \in 1..(agent_index - 1), placement \in Placements :
          /\ i \notin DOMAIN gathered
          /\ gathered' = DictSet(gathered, i,
                                 Invocation(PARALLEL, i, NoIteration, placement)[1])
          /\ trace' = Append(trace, Placed(placement, i, NoIteration))
    /\ UNCHANGED <<strategy, agents, processed_input, pc, agent_index, iteration, responses,
                   iteration_responses>>
    /\ OFrame

(***************************************************************************)
(* AgentDiscovery                                                          *)
(***************************************************************************)
\* AgentDiscovery.cache_ttl_seconds
cache_ttl_seconds == 300

\* the instants, in seconds, at which the registry is called: datetime.now()
Instants == {0, 1, 300, 301, 601}

AgentIds == {"a1", "a2"}
\* the skills of a card are dicts with a "name"
NoSkills == << >>
\* what the agents declare in their cards: skills and metadata
CardBodies == {[skills |-> NoSkills, metadata |-> EmptyMeta],
               [skills |-> <<[name |-> "route"], [name |-> "gps"]>>,
                metadata |-> [region |-> "eu"]],
               [skills |-> <<[name |-> "route"]>>,
                metadata |-> [region |-> "us", tier |-> "gold"]]}
AgentCard(id, body) == [id |-> id, skills |-> body.skills, metadata |-> body.metadata]

\* query=None, the absent query of discover_agents
NoQuery == [none |-> TRUE]

\* the queries passed to discover_agents
Queries == {NoQuery,
            EmptyMeta,
            [skills |-> <<"route">>],
            [skills |-> <<"route", "gps">>],
            [skills |-> NoSkills],
            [metadata |-> [region |-> "eu"]],
            [metadata |-> [tier |-> None]],
            [skills |-> <<"route">>, metadata |-> [region |-> "us", tier |-> "gold"]]}

\* the ids of the cards of a registry
Ids(registry) == {registry[i].id : i \in 1..Len(registry)}

\* agent_registry[id] = card: a new key goes last, a known key keeps its place
RegistrySet(registry, card) ==
    IF card.id \in Ids(registry)
    THEN [i \in 1..Len(registry) |-> IF registry[i].id = card.id THEN card
                                      ELSE registry[i]]
    ELSE Append(registry, card)

\* del agent_registry[id]
RegistryDel(registry, id) == SelectSeq(registry, LAMBDA card : card.id # id)

\* what AgentDiscovery calls leave in dlast
DOutcome(op, agent_id, query, result) ==
    [op |-> op, agent_id |-> agent_id, query |-> query, result |-> result]

\* a register_agent that stamps only the agents it does not know yet
stamp_if_new(cache, id, instant) ==
    IF id \in DOMAIN cache THEN cache ELSE DictSet(cache, id, instant)

\* discovery_cache[agent_card.id] = datetime.now() (line 42)
stamp(cache, id, instant) == DictSet(cache, id, instant)

\* AgentDiscovery.register_agent
register_agent(agent_card) ==
    /\ agent_registry' = RegistrySet(agent_registry, agent_card)
    /\ discovery_cache' = stamp(discovery_cache, agent_card.id, now)
    /\ dlast' = DOutcome("register_agent", agent_card.id, NoQuery, <<agent_card>>)
    /\ UNCHANGED now

\* the frame of the AgentDiscovery calls
DFrame == UNCHANGED <<tmvars, last, cmvars, qvars, ovars>>

RegisterAgent ==
    /\ \E id \in AgentIds, body \in CardBodies : register_agent(AgentCard(id, body))
    /\ DFrame

\* the registry and the cache after unregister_agent
Unregistered(registry, cache, agent_id) ==
    IF agent_id \in Ids(registry)
    THEN [registry |-> RegistryDel(registry, agent_id), cache |-> DictDel(cache, agent_id)]
    ELSE [registry |-> registry, cache |-> cache]

\* AgentDiscovery.unregister_agent
unregister_agent(agent_id) ==
    LET r == Unregistered(agent_registry, discovery_cache, agent_id)
    IN  /\ agent_registry' = r.registry
        /\ discovery_cache' = r.cache
        /\ dlast' = DOutcome("unregister_agent", agent_id, NoQuery, << >>)
        /\ UNCHANGED now

UnregisterAgent ==
    /\ \E id \in AgentIds : unregister_agent(id)
    /\ DFrame

\* AgentDiscovery._matches_query
matches_query(agent_card, query) ==
    IF query = NoQuery \/ DOMAIN query = {}
    THEN TRUE
    ELSE LET agent_skills == {agent_card.skills[i].name : i \in 1..Len(agent_card.skills)}
         IN  /\ "skills" \in DOMAIN query
                => \A i \in 1..Len(query.skills) : query.skills[i] \in agent_skills
             /\ "metadata" \in DOMAIN query
                => \A key \in DOMAIN query.metadata :
                      DictGet(agent_card.metadata, key, None) = query.metadata[key]

\* the cards AgentDiscovery.discover_agents returns, in order
discover_agents(query) ==
    SelectSeq(agent_registry, LAMBDA agent_card : matches_query(agent_card, query))

DiscoverAgents ==
    /\ \E query \in Queries :
          dlast' = DOutcome("discover_agents", None, query, discover_agents(query))
    /\ UNCHANGED <<agent_registry, discovery_cache, now>>
    /\ DFrame

\* AgentDiscovery.list_all_agents
list_all_agents == agent_registry

\* AgentDiscovery.get_agent_by_id
get_agent_by_id(agent_id) ==
    IF agent_id \in Ids(agent_registry)
    THEN (CHOOSE i \in 1..Len(agent_registry) : agent_registry[i].id = agent_id)
    ELSE 0

\* the test of line 137 with >= for >
expired_at_ttl(age) == age >= cache_ttl_seconds

\* the test of cleanup_expired_agents (line 137)
expired(age) == age > cache_ttl_seconds

\* the loop of lines 140-141 over the expired agents
RECURSIVE UnregisterAll(_, _, _)
UnregisterAll(registry, cache, expired_agents) ==
    IF expired_agents = {}
    THEN [registry |-> registry, cache |-> cache]
    ELSE LET agent_id == CHOOSE id \in expired_agents : TRUE
             r == Unregistered(registry, cache, agent_id)
         IN  UnregisterAll(r.registry, r.cache, expired_agents \ {agent_id})

\* AgentDiscovery.cleanup_expired_agents
cleanup_expired_agents ==
    LET current_time == now
        expired_agents == {agent_id \in DOMAIN discovery_cache :
                              expired(current_time - discovery_cache[agent_id])}
        r == UnregisterAll(agent_registry, discovery_cache, expired_agents)
    IN  /\ agent_registry' = r.registry
        /\ discovery_cache' = r.cache
        /\ dlast' = DOutcome("cleanup_expired_agents", None, NoQuery, << >>)
        /\ UNCHANGED now

CleanupExpiredAgents ==
    /\ cleanup_expired_agents
    /\ DFrame

\* time passes between two calls
TimePasses ==
    /\ \E instant \in Instants : instant > now /\ now' = instant
    /\ UNCHANGED <<agent_registry, discovery_cache, dlast>>
    /\ DFrame

\* AgentDiscovery.__init__
DiscoveryNew ==
    /\ agent_registry = << >>
    /\ discovery_cache = << >>
    /\ dlast = DOutcome("init", None, NoQuery, << >>)

(***************************************************************************)
(* Specifications of the managers                                          *)
(***************************************************************************)
NoOp == Outcome("init", EmptyStr, EmptyStr, PENDING, "ok", 0)

ManagersInit ==
    /\ tasks = << >>
    /\ contexts = << >>
    /\ now = 0
    /\ last = NoOp
    /\ cm_contexts = << >>

\* a TaskManager used on its own
TaskInit ==
    /\ ManagersInit
    /\ task_manager = TRUE
    /\ QueueIdle
    /\ OrchestratorIdle
    /\ DiscoveryNew

TaskNext ==
    \/ CreateTask
    \/ UpdateTaskStatus
    \/ complete_task
    \/ fail_task
    \/ start_task
    \/ require_auth_task
    \/ DeleteTask
    \/ DeleteContext

SpecTask == TaskInit /\ [][TaskNext]_vars

\* the TaskManager used as a task store: tasks are created and deleted only
StoreNext ==
    \/ CreateTask
    \/ DeleteTask
    \/ DeleteContext

SpecStore == TaskInit /\ [][StoreNext]_vars

\* the TaskManager with its tasks created, deleted and cleaned up by age
CleanupNext ==
    \/ CreateTask
    \/ DeleteTask
    \/ CleanupOldTasks

SpecCleanup == TaskInit /\ [][CleanupNext]_vars

\* a ContextManager built with or without a TaskManager, and the TaskManager
ContextInit ==
    /\ ManagersInit
    /\ task_manager \in BOOLEAN
    /\ QueueIdle
    /\ OrchestratorIdle
    /\ DiscoveryNew

ContextNext ==
    \/ CreateContext
    \/ AddTaskToContext
    \/ RemoveTaskFromContext
    \/ CMDeleteContext
    \/ CreateTask
    \/ DeleteTask
    \/ DeleteContext

SpecContext == ContextInit /\ [][ContextNext]_vars

\* the ContextManager with all its operations, built with a TaskManager, after
\* create_context(context_id="c1") was called on it and read the clock at the two
\* instants that end at the origin
SeededContexts ==
    [c1 |-> [name |-> DefaultName("c1"), description |-> DefaultDescription,
             metadata |-> EmptyMeta, created_at |-> 0 - 1, updated_at |-> 0,
             task_ids |-> << >>]]

ContextManagerInit ==
    /\ tasks = << >>
    /\ contexts = << >>
    /\ now = 0
    /\ last = NoOp
    /\ cm_contexts = SeededContexts
    /\ task_manager = TRUE
    /\ QueueIdle
    /\ OrchestratorIdle
    /\ DiscoveryNew

\* ContextManager.create_context called with an id and nothing else
CreateContextWithId ==
    /\ \E context_id_arg \in ContextIds : create_context(None, None, None, context_id_arg)
    /\ UNCHANGED <<tmvars, task_manager, qvars, ovars, dvars>>

ContextManagerNext ==
    \/ CreateContextWithId
    \/ UpdateContext
    \/ AddTaskToContext
    \/ RemoveTaskFromContext
    \/ CMDeleteContext
    \/ CleanupEmptyContexts
    \/ GetContextTasks
    \/ CreateValidTask
    \/ DeleteTask
    \/ DeleteContext

SpecContextManager == ContextManagerInit /\ [][ContextManagerNext]_vars

\* the ContextManager with its contexts created and updated, validly or not
ContextUpdateNext ==
    \/ CreateContextWithId
    \/ UpdateContext
    \/ UpdateContextInvalid
    \/ AddTaskToContext

SpecContextUpdate == ContextManagerInit /\ [][ContextUpdateNext]_vars

(***************************************************************************)
(* Specification of the EventQueue                                         *)
(***************************************************************************)
QueueInit ==
    /\ ManagersInit
    /\ task_manager = TRUE
    /\ max_size \in MaxSizes
    /\ QueueNew
    /\ OrchestratorIdle
    /\ DiscoveryNew

QueueNext ==
    \/ Put
    \/ Get
    \/ Peek
    \/ Clear

SpecQueue == QueueInit /\ [][QueueNext]_vars

\* the EventQueue with its two reading operations between the puts and the gets
QueueReadNext ==
    \/ Put
    \/ Get
    \/ Peek
    \/ GetEventsByType

SpecQueueRead == QueueInit /\ [][QueueReadNext]_vars

\* the EventQueue with producers that stop after MaxPuts puts and a consumer that
\* keeps calling get
QueueLiveNext ==
    \/ Put
    \/ Get

SpecQueueLive == QueueInit /\ [][QueueLiveNext]_vars /\ WF_vars(Get)

\* one EventQueue shared by the workers
RaceInit ==
    /\ ManagersInit
    /\ task_manager = TRUE
    /\ max_size \in RaceSizes
    /\ QueueNew
    /\ OrchestratorIdle
    /\ DiscoveryNew

RaceNext ==
    \/ \E w \in Producers : PutCall(w)
    \/ \E w \in Producers : PutAcquire(w)
    \/ \E w \in Producers : PutCheck(w)
    \/ \E w \in Producers : PutEffect(w)
    \/ \E w \in Consumers : GetAcquire(w)
    \/ \E w \in Consumers : GetEffect(w)

SpecRace == RaceInit /\ [][RaceNext]_vars

(***************************************************************************)
(* Specification of the Orchestrator                                       *)
(***************************************************************************)
OrchestratorInit ==
    /\ ManagersInit
    /\ task_manager = TRUE
    /\ QueueIdle
    /\ config \in Configs
    /\ OrchestratorNew
    /\ DiscoveryNew

OrchestratorNext ==
    \/ Orchestrate
    \/ SequentialCall
    \/ SequentialReturn
    \/ SequentialDone
    \/ ParallelCall
    \/ ParallelReturn
    \/ ParallelJoin
    \/ LoopCall
    \/ LoopReturn
    \/ LoopEndIteration
    \/ LoopDone
    \/ ConditionalCall
    \/ ConditionalReturn
    \/ ConditionalDone

SpecOrchestrator == OrchestratorInit /\ [][OrchestratorNext]_vars

\* the Orchestrator with agents that put several events on their queues
InvocationNext ==
    \/ Orchestrate
    \/ SequentialCall
    \/ SequentialDone
    \/ ParallelCall
    \/ ParallelJoin
    \/ LoopCall
    \/ LoopEndIteration
    \/ LoopDone
    \/ ConditionalCall
    \/ ConditionalDone
    \/ InvokeInTurn
    \/ InvokeInLoop
    \/ InvokeInTask

SpecInvocation == OrchestratorInit /\ [][InvocationNext]_vars

\* the Orchestrator with agents whose execute may never complete; the event
\* loop starts every task that gather was given unless a coroutine blocks it
HangNext ==
    \/ OrchestratorNext
    \/ AgentHangs
    \/ TaskHangs

SpecHang == OrchestratorInit /\ [][HangNext]_vars /\ WF_vars(ParallelCall)

(***************************************************************************)
(* Specification of the AgentDiscovery                                     *)
(***************************************************************************)
DiscoveryInit ==
    /\ ManagersInit
    /\ task_manager = TRUE
    /\ QueueIdle
    /\ OrchestratorIdle
    /\ DiscoveryNew

DiscoveryNext ==
    \/ RegisterAgent
    \/ UnregisterAgent
    \/ DiscoverAgents
    \/ CleanupExpiredAgents
    \/ TimePasses

SpecDiscovery == DiscoveryInit /\ [][DiscoveryNext]_vars

(***************************************************************************)
(* Properties of the TaskManager                                           *)
(***************************************************************************)
UpdateOps == {"update_task_status", "complete_task", "fail_task", "start_task",
              "require_auth_task"}
Raised == "A2AProtocolError"

\* C1: update_task_status or one of its wrappers, called with a status that is
\* not an allowed edge from the task's current status, raises and leaves the
\* task record (status, output_data, error_message, updated_at) as it was.
C1_IllegalTransitionLeavesTaskUnchanged ==
    [][\A t \in DOMAIN tasks :
          (/\ last'.op \in UpdateOps
           /\ last'.task_id = t
           /\ last'.status \notin valid_transitions(tasks[t].status))
          => (/\ last'.result = Raised
              /\ t \in DOMAIN tasks'
              /\ tasks'[t] = tasks[t])]_vars

\* C2: every change of a stored task's status follows an edge of the
\* transition table; a Completed or Failed task never changes status again.
C2_StatusFollowsTransitionTable ==
    [][\A t \in (DOMAIN tasks) \cap (DOMAIN tasks') :
          tasks'[t].status # tasks[t].status
          => tasks'[t].status \in valid_transitions(tasks[t].status)]_vars

\* C3: update_task_status called with a status allowed from the task's current
\* status returns without error and the task has the new status; complete_task
\* also stores the given output_data.
C3_AllowedTransitionSucceeds ==
    [][\A t \in DOMAIN tasks :
          (/\ last'.op \in UpdateOps
           /\ last'.task_id = t
           /\ last'.status \in valid_transitions(tasks[t].status))
          => (/\ last'.result = "ok"
              /\ t \in DOMAIN tasks'
              /\ tasks'[t].status = last'.status
              /\ (last'.op = "complete_task" => tasks'[t].output_data \in OutputData))]_vars

\* C4: create_task called with a task_id that is already stored raises and
\* leaves the task store and the context index unchanged.
C4_DuplicateTaskIdRejected ==
    [][(last'.op = "create_task" /\ last'.task_id \in DOMAIN tasks)
          => (/\ last'.result = Raised
              /\ tasks' = tasks
              /\ contexts' = contexts)]_vars

\* C5: create_task with an empty context_id, skill_id or input_data raises, and
\* the task store and the context index are exactly as before the call.
C5_InvalidCreateLeavesStoreUnchanged ==
    [][(/\ last'.op = "create_task"
        /\ \/ last'.context_id = EmptyStr
           \/ last'.skill_id = EmptyStr
           \/ last'.input_data = EmptyDict)
          => (/\ last'.result = Raised
              /\ tasks' = tasks
              /\ contexts' = contexts)]_vars

\* a create_task with an empty input_data only has been refused by a store
\* that holds a task
C5_Witness ==
    /\ last.op = "create_task"
    /\ last.input_data = EmptyDict
    /\ last.context_id \in ContextIds
    /\ last.skill_id \in SkillIds
    /\ last.result = Raised
    /\ DOMAIN tasks # {}

\* C6: for every context id c, get_tasks_by_context(c) lists exactly the stored
\* tasks whose context_id is c, each once, in creation order; a task just
\* created is Pending.
C6_ContextIndexMatchesStore ==
    /\ \A c \in ContextIds :
          LET l == get_tasks_by_context(c)
          IN  /\ Range(l) = {t \in DOMAIN tasks : tasks[t].context_id = c}
              /\ \A i, j \in 1..Len(l) : i < j => l[i] # l[j]
              /\ \A i, j \in 1..Len(l) :
                    i < j => tasks[l[i]].created_at < tasks[l[j]].created_at
    /\ (last.op = "create_task" /\ last.result = "ok")
          => tasks[last.task_id].status = PENDING

\* C7: TaskManager.delete_context(c) deletes every task indexed under c and
\* returns their number; afterwards get_tasks_by_context(c) is empty and
\* get_task finds none of them.
C7_DeleteContextDeletesAll ==
    [][\A c \in ContextIds :
          (last'.op = "delete_context" /\ last'.context_id = c)
          => LET indexed == Range(get_tasks_by_context(c))
             IN  /\ last'.ret = Cardinality(indexed)
                 /\ \A t \in indexed : t \notin DOMAIN tasks'
                 /\ SelectSeq(DictGetList(contexts', c),
                              LAMBDA t : t \in DOMAIN tasks') = << >>]_vars

(***************************************************************************)
(* Properties of the ContextManager                                        *)
(***************************************************************************)
\* C8: ContextManager.delete_context(id, delete_tasks=true) with a TaskManager
\* attached removes the context and every task of its list, and afterwards
\* get_context_tasks(id) and TaskManager.get_tasks_by_context(id) are empty;
\* with delete_tasks=false the context is removed and the TaskManager's store
\* is unchanged.
C8_CascadingDeleteEmptiesContext ==
    [][\A c \in DOMAIN cm_contexts :
          /\ (/\ last'.op = "ContextManager.delete_context(delete_tasks=True)"
              /\ last'.context_id = c
              /\ task_manager)
             => (/\ c \notin DOMAIN cm_contexts'
                 /\ \A t \in Range(cm_contexts[c].task_ids) : t \notin DOMAIN tasks'
                 /\ SelectSeq(DictGetList(contexts', c),
                              LAMBDA t : t \in DOMAIN tasks') = << >>)
          /\ (/\ last'.op = "ContextManager.delete_context(delete_tasks=False)"
              /\ last'.context_id = c)
             => (/\ c \notin DOMAIN cm_contexts'
                 /\ tasks' = tasks
                 /\ contexts' = contexts)]_vars

(***************************************************************************)
(* Properties of the EventQueue                                            *)
(***************************************************************************)
\* the events in the lanes
Queued ==
    Range(high_priority_queue) \cup Range(normal_priority_queue)
        \cup Range(low_priority_queue)

\* the priority level of an event: high 2, normal 1, low 0
Level(event) == IF event.priority > 0 THEN 2 ELSE IF event.priority < 0 THEN 0 ELSE 1

\* four events were put with priorities high, normal, low, high, all four were
\* accepted, and four gets made after the fourth put returned them
FourPutsThenFourGets ==
    /\ Len(delivered) = 4
    /\ \A i \in 1..4 : delivered[i].puts = 4
    /\ {delivered[i].seq : i \in 1..4} = 1..4
    /\ \A i \in 1..4 :
          LET e == delivered[i]
          IN  Level(e) = CASE e.seq = 1 -> 2 [] e.seq = 2 -> 1
                           [] e.seq = 3 -> 0 [] e.seq = 4 -> 2

\* C9: each get returns the oldest event of the highest-priority non-empty
\* lane, and none when all lanes are empty; puts of priorities high, normal,
\* low, high followed by four gets return the first high, the second high, the
\* normal and the low event, in this order.
C9_GetReturnsOldestOfHighestPriority ==
    [][qlast'.op = "get"
          => /\ IF Queued = {}
                THEN qlast'.event = NoEvent
                ELSE /\ qlast'.event \in Queued
                     /\ \A x \in Queued :
                           \/ Level(x) < Level(qlast'.event)
                           \/ /\ Level(x) = Level(qlast'.event)
                              /\ qlast'.event.seq <= x.seq
             /\ FourPutsThenFourGets'
                   => [i \in 1..4 |-> delivered'[i].seq] = <<1, 4, 2, 3>>]_vars

\* the four gets of the example have returned the events put 1st, 4th, 2nd, 3rd
C9_Witness ==
    /\ FourPutsThenFourGets
    /\ qlast.op = "get"
    /\ qlast.event.seq = 3
    /\ Level(qlast.event) = 0

\* C10: a put made while the queued count is >= max_size leaves the lanes and
\* size() unchanged and increases the drop counter by 1; a put made while the
\* count is < max_size appends the event to exactly the lane of its priority's
\* sign, increases size() by 1 and leaves the drop counter unchanged.
C10_PutDropsWhenFullElseAppends ==
    [][qlast'.op = "put"
          => IF get_total_size >= max_size
             THEN /\ UNCHANGED <<high_priority_queue, normal_priority_queue,
                                 low_priority_queue>>
                  /\ total_events_dropped' = total_events_dropped + 1
                  /\ ~qlast'.accepted
             ELSE LET e == qlast'.event
                  IN  /\ qlast'.accepted
                      /\ total_events_dropped' = total_events_dropped
                      /\ Len(high_priority_queue') + Len(normal_priority_queue')
                            + Len(low_priority_queue') = get_total_size + 1
                      /\ high_priority_queue' =
                            IF e.priority > 0 THEN Append(high_priority_queue, e)
                            ELSE high_priority_queue
                      /\ normal_priority_queue' =
                            IF e.priority = 0 THEN Append(normal_priority_queue, e)
                            ELSE normal_priority_queue
                      /\ low_priority_queue' =
                            IF e.priority < 0 THEN Append(low_priority_queue, e)
                            ELSE low_priority_queue]_vars

\* a put has been dropped by a queue that holds max_size > 0 events
C10_Witness ==
    /\ qlast.op = "put"
    /\ ~qlast.accepted
    /\ max_size > 0
    /\ get_total_size = max_size
    /\ total_events_dropped = 1

\* the event types a consumer asks get_events_by_type for
EventTypes == {"message", "response"}

\* the seq numbers of the events get has returned so far
DeliveredSeqs == {delivered[i].seq : i \in 1..Len(delivered)}

\* C11: delivery is at-most-once: no event is returned by two gets; an event
\* that get has returned is in no lane, so that neither peek nor
\* get_events_by_type returns it; and get returns only events that put accepted:
\* every event in a lane was built and appended by an accepting put, and the
\* event get returns is one of the lanes' events.
C11_AtMostOnceDelivery ==
    [][/\ \A i, j \in 1..Len(delivered') : i < j => delivered'[i].seq # delivered'[j].seq
       /\ \A e \in Queued' : e.seq \notin DeliveredSeqs'
       /\ (qlast'.op = "peek" /\ qlast'.event # NoEvent)
             => qlast'.event.seq \notin DeliveredSeqs'
       /\ \A ty \in EventTypes :
             \A i \in 1..Len(get_events_by_type(ty)') :
                get_events_by_type(ty)'[i].seq \notin DeliveredSeqs'
       /\ \A e \in Queued' \ Queued :
             /\ qlast' = [op |-> "put", event |-> e, accepted |-> TRUE]
             /\ \E d \in EventDatas : e = Event(d, e.priority, puts + 1)
       /\ (qlast'.op = "get" /\ qlast'.event # NoEvent)
             => /\ qlast'.event \in Queued
                /\ qlast'.event \notin Queued'
                /\ qlast'.event.seq \notin DeliveredSeqs]_vars

\* two events have been returned by get, and a peek made afterwards finds a
\* third event of type response still queued
C11_Witness ==
    /\ Len(delivered) = 2
    /\ qlast.op = "peek"
    /\ qlast.event # NoEvent
    /\ Len(get_events_by_type("response")) = 1

(***************************************************************************)
(* Properties of the Orchestrator                                          *)
(***************************************************************************)
\* the number of entries ev of trace for the agent at position i in iteration it
Count(ev, i, it) ==
    Len(SelectSeq(trace, LAMBDA e : e = Ev(ev, i, it)))

\* the positions in responses of the records that carry the name of agent i
RecordsOf(i) == {k \in 1..Len(responses) : responses[k].agent = agents[i]}

\* the positions in responses of the failed records
FailedRecords == {k \in 1..Len(responses) : Status(responses[k]) = "failed"}

\* C12: a Parallel orchestration of n agents returns exactly n records; the
\* record of an agent is failed if and only if its execute raised; every agent
\* has been invoked and has run to its end whichever agents raised; with 3
\* agents of which only the second raises, exactly one record is failed and
\* the two others are not.
C12_ParallelIsolatesFailures ==
    (strategy = PARALLEL /\ pc = "done")
    => /\ Len(responses) = Len(agents)
       /\ \A i \in 1..Len(agents) :
             /\ Count("call", i, NoIteration) = 1
             /\ Count("return", i, NoIteration) + Count("raise", i, NoIteration) = 1
             /\ Cardinality(RecordsOf(i)) = 1
             /\ \A k \in RecordsOf(i) :
                   Status(responses[k]) = "failed" <=> Count("raise", i, NoIteration) = 1
       /\ (/\ Len(agents) = 3
           /\ {i \in 1..3 : Count("raise", i, NoIteration) = 1} = {2})
          => /\ Cardinality(FailedRecords) = 1
             /\ \A k \in RecordsOf(1) \cup RecordsOf(3) :
                   Status(responses[k]) \in {"completed", "no_response"}

\* a Parallel orchestration of 3 agents has returned; the second agent raised
\* before the first one, which put no event, returned
C12_Witness ==
    /\ strategy = PARALLEL
    /\ pc = "done"
    /\ Len(agents) = 3
    /\ {i \in 1..3 : Count("raise", i, NoIteration) = 1} = {2}
    /\ CompletionOrder[1] = 2
    /\ Status(responses[1]) = "no_response"
    /\ Status(responses[3]) = "completed"

\* the number of iterations _loop_orchestration has started
IterationsRun == Len(SelectSeq(trace, LAMBDA e : e.ev = "iteration"))

\* C13: orchestrate returns exactly one record per (agent, iteration) attempt
\* under every strategy: |agents| records for Sequential, Parallel and
\* Conditional, |agents| times the number of iterations run for Loop, also when
\* an agent returns without putting an event.
C13_OneRecordPerAttempt ==
    (pc = "done")
    => Len(responses) = IF strategy = LOOP THEN Len(agents) * IterationsRun
                        ELSE Len(agents)

\* C14: every record of the result list, under every strategy, has a status
\* field with one of the values completed, failed, skipped, no_response; the
\* record built from a response event has status completed.
C14_EveryRecordHasStatus ==
    \A k \in 1..Len(responses) :
       /\ Status(responses[k]) \in {"completed", "failed", "skipped", "no_response"}
       /\ "response" \in DOMAIN responses[k] => Status(responses[k]) = "completed"

\* C15: in a Conditional orchestration an agent whose predicate is false on the
\* input is not invoked and has a skipped record, an agent whose predicate is
\* true is invoked exactly once, and there are an agent and an input for which
\* the predicate is false as well as an agent and an input for which it is true.
C15_ConditionalSkipsOnFalsePredicate ==
    (strategy = CONDITIONAL /\ pc = "done" /\ agents # << >>)
    => /\ \A i \in 1..Len(agents) :
             IF should_execute_agent(agents[i], processed_input)
             THEN Count("call", i, NoIteration) = 1
             ELSE /\ Count("call", i, NoIteration) = 0
                  /\ \E k \in RecordsOf(i) : Status(responses[k]) = "skipped"
       /\ \E i \in 1..MaxAgents, input \in Inputs :
             should_execute_agent(AgentName(i), input)
       /\ \E i \in 1..MaxAgents, input \in Inputs :
             ~should_execute_agent(AgentName(i), input)

\* C16: in a Sequential orchestration the agents are invoked one at a time in
\* list order, each exactly once and each after the execute of the one before
\* it has returned or raised; an agent that raises has a failed record and the
\* agents after it are invoked all the same.
C16_SequentialInvokesAllInOrder ==
    (strategy = SEQUENTIAL)
    => /\ \A k \in 1..Len(trace) :
             /\ trace[k].agent = (k + 1) \div 2
             /\ trace[k].ev = "call" <=> k % 2 = 1
       /\ \A i \in 1..Len(agents) :
             Count("raise", i, NoIteration) = 1
             => \E k \in RecordsOf(i) : Status(responses[k]) = "failed"
       /\ pc = "done"
          => \A i \in 1..Len(agents) :
                /\ Count("call", i, NoIteration) = 1
                /\ Count("return", i, NoIteration) + Count("raise", i, NoIteration) = 1

\* a Sequential orchestration of 3 agents has returned; the first agent raised
\* and the third agent responded
C16_Witness ==
    /\ strategy = SEQUENTIAL
    /\ pc = "done"
    /\ Len(agents) = 3
    /\ Count("raise", 1, NoIteration) = 1
    /\ Count("return", 3, NoIteration) = 1
    /\ Len(responses) >= 2
    /\ "response" \in DOMAIN responses[Len(responses)]

\* the positions in trace of the entries of iteration it
EntriesOf(it) == {k \in 1..Len(trace) : trace[k].iteration = it}

\* C17: a Loop orchestration runs the whole agent list for at most
\* max_iterations iterations (5 when the configuration sets none); every record
\* carries the index of the iteration whose execute call produced it; no
\* iteration starts after an iteration that produced a failed record; and when
\* no record is failed, exactly max_iterations iterations are run.
C17_LoopStopsAfterFailedIteration ==
    (strategy = LOOP)
    => /\ IterationsRun <= max_iterations
       /\ ("max_iterations" \notin DOMAIN config) => max_iterations = 5
       /\ \A k \in 1..Len(responses) :
             LET r == responses[k]
             IN  /\ "iteration" \in DOMAIN r
                 /\ r.iteration \in 0..(IterationsRun - 1)
                 /\ \E i \in 1..Len(agents) :
                       /\ agents[i] = r.agent
                       /\ IF Status(r) = "failed"
                          THEN Count("raise", i, r.iteration) = 1
                          ELSE Count("return", i, r.iteration) = 1
       /\ \A i \in 1..Len(agents), it \in 0..(IterationsRun - 1) :
             Count("raise", i, it) = 1 => \A later \in (it + 1)..max_iterations :
                                            EntriesOf(later) = {}
       /\ pc = "done"
          => /\ \A i \in 1..Len(agents), it \in 0..(IterationsRun - 1) :
                   Count("call", i, it) = 1
             /\ FailedRecords = {} => IterationsRun = max_iterations

\* a Loop orchestration of one agent under the default configuration has
\* returned after five iterations without a failed record
C17_Witness ==
    /\ strategy = LOOP
    /\ pc = "done"
    /\ config = << >>
    /\ Len(agents) = 1
    /\ IterationsRun = 5
    /\ FailedRecords = {}
    /\ Len(responses) >= 1
    /\ responses[Len(responses)].iteration = 4

\* C18: the records of a Parallel orchestration are in the order in which the
\* agents' execute calls finished.
C18_ParallelResultsInCompletionOrder ==
    (strategy = PARALLEL /\ pc = "done")
    => \A k \in 1..Len(responses) : responses[k].agent = agents[CompletionOrder[k]]

\* C18 as amended: the records of a Parallel orchestration are in the order of
\* the agent list, whatever the order in which the execute calls finished.
C18_ParallelResultsInListOrder ==
    (strategy = PARALLEL /\ pc = "done")
    => /\ Len(responses) = Len(agents)
       /\ \A k \in 1..Len(responses) : responses[k].agent = agents[k]

\* a Parallel orchestration of 3 agents has returned and the third agent's
\* execute finished first, the first agent's last
C18_Witness ==
    /\ strategy = PARALLEL
    /\ pc = "done"
    /\ Len(agents) = 3
    /\ CompletionOrder = <<3, 2, 1>>

\* C19: in Sequential and Conditional orchestrations the i-th record belongs
\* to the i-th agent of the list; in a Loop orchestration the records of an
\* iteration precede those of the next one and follow the list order within
\* the iteration.
C19_RecordsInListOrder ==
    (pc = "done")
    => /\ strategy \in {SEQUENTIAL, CONDITIONAL}
          => \A i \in 1..Len(responses) : responses[i].agent = agents[i]
       /\ strategy = LOOP
          => \A k, l \in 1..Len(responses) :
                k < l => \/ responses[k].iteration < responses[l].iteration
                         \/ /\ responses[k].iteration = responses[l].iteration
                            /\ \E i, j \in 1..Len(agents) :
                                  /\ i < j
                                  /\ agents[i] = responses[k].agent
                                  /\ agents[j] = responses[l].agent

\* C20: under every strategy and whichever agents raise, execute is called at
\* most once for each agent and iteration; after an agent's execute has raised,
\* the next call is never a call of that agent for the same iteration.
C20_NoRetry ==
    /\ \A i \in 1..Len(agents), it \in {NoIteration} \cup 0..max_iterations :
          Count("call", i, it) <= 1
    /\ \A k \in 1..Len(trace) :
          trace[k].ev = "raise"
          => \A l \in (k + 1)..Len(trace) :
                ~(/\ trace[l].ev = "call"
                  /\ trace[l].agent = trace[k].agent
                  /\ trace[l].iteration = trace[k].iteration)

\* a Loop orchestration of 2 agents has returned; the first agent raised in
\* the second iteration and the second agent was called after it
C20_Witness ==
    /\ strategy = LOOP
    /\ pc = "done"
    /\ Len(agents) = 2
    /\ Count("raise", 1, 1) = 1
    /\ Count("call", 2, 1) = 1
    /\ Count("call", 1, 0) = 1
    /\ IterationsRun = 2

(***************************************************************************)
(* Properties of the AgentDiscovery                                        *)
(***************************************************************************)
\* the step is a call of the AgentDiscovery operation op: no time passes in it
IsCall(op) == now' = now /\ dlast'.op = op

\* the card stored under an id
CardOf(registry, id) == registry[CHOOSE i \in 1..Len(registry) : registry[i].id = id]

\* C21: a registered agent stays in list_all_agents() through every call that
\* is neither cleanup_expired_agents nor its own unregistration, and through
\* the passing of time, whatever its age; a cleanup_expired_agents() call
\* removes it when more than 300 seconds have passed since it was registered,
\* and keeps it when at most 300 seconds have passed.
C21_ExpiryOnlyAtCleanupAfterTTL ==
    [][\A id \in Ids(agent_registry) :
          /\ IsCall("cleanup_expired_agents")
             => IF now - discovery_cache[id] > 300
                THEN id \notin Ids(list_all_agents')
                ELSE /\ id \in Ids(list_all_agents')
                     /\ CardOf(list_all_agents', id) = CardOf(agent_registry, id)
          /\ (/\ ~IsCall("cleanup_expired_agents")
              /\ ~(IsCall("unregister_agent") /\ dlast'.agent_id = id))
             => id \in Ids(list_all_agents')]_vars

\* cleanup_expired_agents() was called 601 seconds after the start: an agent
\* registered 300 seconds before the call is listed, and it is the only one
C21_Witness ==
    /\ dlast.op = "cleanup_expired_agents"
    /\ now = 601
    /\ Ids(list_all_agents) = {"a2"}
    /\ discovery_cache["a2"] = 301

\* C22: discover_agents(query) returns exactly the registered cards such that
\* every skill of query.skills, when the query has that clause, is a skill name
\* of the card, and every key of query.metadata, when the query has that clause,
\* is a key of the card's metadata with the same value; the absent query and a
\* query without clauses return every registered card.
C22_DiscoverReturnsExactlyTheMatches ==
    [][IsCall("discover_agents")
       => LET query == dlast'.query
              Matches(card) ==
                  \/ query = NoQuery
                  \/ /\ "skills" \in DOMAIN query
                        => \A i \in 1..Len(query.skills) :
                              \E j \in 1..Len(card.skills) :
                                 card.skills[j].name = query.skills[i]
                     /\ "metadata" \in DOMAIN query
                        => \A key \in DOMAIN query.metadata :
                              /\ key \in DOMAIN card.metadata
                              /\ card.metadata[key] = query.metadata[key]
          IN  /\ Ids(dlast'.result) = {id \in Ids(agent_registry) :
                                          Matches(CardOf(agent_registry, id))}
              /\ \A i \in 1..Len(dlast'.result) :
                    dlast'.result[i] = CardOf(agent_registry, dlast'.result[i].id)
              /\ \A i, j \in 1..Len(dlast'.result) :
                    i # j => dlast'.result[i].id # dlast'.result[j].id]_vars

\* C23: the registry holds one card per id and a last_seen entry for exactly
\* the registered ids; register_agent stores the given card under its id in
\* place of the one stored before, stamps the id with the time of the call and
\* leaves the other agents alone, so that a later cleanup keeps the agent while
\* at most 300 seconds have passed since the latest registration;
\* unregister_agent removes the card and the last_seen entry.
C23_RegisterReplacesAndRestamps ==
    [][/\ \A i, j \in 1..Len(agent_registry') :
             i # j => agent_registry'[i].id # agent_registry'[j].id
       /\ DOMAIN discovery_cache' = Ids(agent_registry')
       /\ IsCall("register_agent")
          => LET card == dlast'.result[1]
             IN  /\ Ids(agent_registry') = Ids(agent_registry) \cup {card.id}
                 /\ CardOf(agent_registry', card.id) = card
                 /\ discovery_cache'[card.id] = now
                 /\ \A id \in Ids(agent_registry) \ {card.id} :
                       /\ CardOf(agent_registry', id) = CardOf(agent_registry, id)
                       /\ discovery_cache'[id] = discovery_cache[id]
       /\ IsCall("cleanup_expired_agents")
          => \A id \in Ids(agent_registry) :
                now - discovery_cache[id] <= 300 => id \in Ids(agent_registry')
       /\ IsCall("unregister_agent")
          => /\ Ids(agent_registry') = Ids(agent_registry) \ {dlast'.agent_id}
             /\ DOMAIN discovery_cache' = DOMAIN discovery_cache \ {dlast'.agent_id}
             /\ \A id \in Ids(agent_registry') :
                   /\ CardOf(agent_registry', id) = CardOf(agent_registry, id)
                   /\ discovery_cache'[id] = discovery_cache[id]]_vars

\* agent a1, registered before a2 was registered at 300, has just been
\* registered again at 301 with another card: it keeps its place and has the
\* new stamp
C23_Witness ==
    /\ dlast.op = "register_agent"
    /\ dlast.agent_id = "a1"
    /\ now = 301
    /\ Len(agent_registry) = 2
    /\ agent_registry[1].id = "a1"
    /\ agent_registry[1].skills # NoSkills
    /\ discovery_cache = [a1 |-> 301, a2 |-> 300]

(***************************************************************************)
(* Properties of the ContextManager operations                             *)
(***************************************************************************)
\* C24: once create_task(C1) has returned T1 for a context C1 the ContextManager
\* stores, get_context_statistics(C1) counts T1: total_tasks is the number of the
\* existing tasks of that context and status_counts their number per status
C24_StatisticsCountTheTasksOfTheContext ==
    (/\ task_manager
     /\ last.op = "create_task"
     /\ last.result = "ok"
     /\ last.context_id \in DOMAIN cm_contexts)
    => LET statistics == get_context_statistics(last.context_id)
           of_context == {t \in DOMAIN tasks : tasks[t].context_id = last.context_id}
       IN  /\ last.task_id \in of_context
           /\ statistics.total_tasks = Cardinality(of_context)
           /\ \A status \in TaskStatus :
                 DictGet(statistics.status_counts, status, 0) =
                     Cardinality({t \in of_context : tasks[t].status = status})

\* no element occurs twice in the list
NoDuplicates(s) == \A i, j \in 1..Len(s) : s[i] = s[j] => i = j

\* C25: no task-id list ever holds an id twice; add_task_to_context appends an id
\* the list lacks and changes nothing when the list has it, remove_task_from_context
\* takes the id out and changes nothing when the list lacks it
C25_AddAndRemoveAreIdempotent ==
    [][/\ \A c \in DOMAIN cm_contexts' : NoDuplicates(cm_contexts'[c].task_ids)
       /\ \A c \in DOMAIN cm_contexts :
             LET old == cm_contexts[c].task_ids
                 t == last'.task_id
             IN  /\ (last'.op = "add_task_to_context" /\ last'.context_id = c)
                    => /\ c \in DOMAIN cm_contexts'
                       /\ cm_contexts'[c].task_ids =
                              IF t \in Range(old) THEN old ELSE Append(old, t)
                       /\ t \in Range(old) => cm_contexts' = cm_contexts
                 /\ (last'.op = "remove_task_from_context" /\ last'.context_id = c)
                    => /\ c \in DOMAIN cm_contexts'
                       /\ cm_contexts'[c].task_ids = SelectSeq(old, LAMBDA x : x # t)
                       /\ t \notin Range(old) => cm_contexts' = cm_contexts
                       /\ t \notin Range(cm_contexts'[c].task_ids)]_vars

\* add_task_to_context("c1", "t1") was called on a list that had t1 before t2
C25_Witness ==
    /\ last.op = "add_task_to_context"
    /\ last.context_id = "c1"
    /\ last.task_id = "t1"
    /\ last.ret = 1
    /\ "c1" \in DOMAIN cm_contexts
    /\ cm_contexts["c1"].task_ids = <<"t1", "t2">>

\* the ContextManager operations other than delete_context(delete_tasks=True)
ContextOnlyOps == {"create_context", "update_context", "add_task_to_context",
                   "remove_task_from_context", "cleanup_empty_contexts",
                   "get_context_tasks",
                   "ContextManager.delete_context(delete_tasks=False)"}

\* C26: the reference is weak in both directions: delete_task and delete_context
\* of the TaskManager leave every ContextInfo as it was, and every ContextManager
\* operation other than delete_context(delete_tasks=True) leaves the TaskManager's
\* store as it was, add_task_to_context of an id the store lacks included
C26_WeakReference ==
    [][/\ last'.op \in {"delete_task", "delete_context"} => cm_contexts' = cm_contexts
       /\ last'.op \in ContextOnlyOps => (tasks' = tasks /\ contexts' = contexts)]_vars

\* delete_task deleted a task whose id a context still lists
C26_Witness ==
    /\ last.op = "delete_task"
    /\ last.ret = 1
    /\ last.task_id \notin DOMAIN tasks
    /\ \E c \in DOMAIN cm_contexts : last.task_id \in Range(cm_contexts[c].task_ids)

\* the position of x in the list s
Pos(s, x) == CHOOSE i \in 1..Len(s) : s[i] = x

\* C27: get_context_tasks returns, in the order of the list, exactly the tasks
\* whose ids the context lists and the TaskManager has; the other ids are skipped
\* without an error and the list stays as it was
C27_GetContextTasksSkipsMissing ==
    [][last'.op = "get_context_tasks"
       => LET c == last'.context_id
              returned == last'.value
              listed == IF c \in DOMAIN cm_contexts THEN cm_contexts[c].task_ids
                        ELSE << >>
          IN  /\ cm_contexts' = cm_contexts
              /\ tasks' = tasks
              /\ contexts' = contexts
              /\ last'.result = "ok"
              /\ Range(returned) = Range(listed) \cap DOMAIN tasks
              /\ NoDuplicates(returned)
              /\ \A i, j \in 1..Len(returned) :
                    i < j => Pos(listed, returned[i]) < Pos(listed, returned[j])]_vars

\* get_context_tasks("c1") returned t2 alone from the list t1, t2
C27_Witness ==
    /\ last.op = "get_context_tasks"
    /\ last.context_id = "c1"
    /\ last.value = <<"t2">>
    /\ "c1" \in DOMAIN cm_contexts
    /\ cm_contexts["c1"].task_ids = <<"t1", "t2">>
    /\ "t1" \notin DOMAIN tasks

\* C28: cleanup_empty_contexts deletes every context whose list is empty and
\* returns their number; the contexts with a task id and the TaskManager's store
\* stay as they were, and no stored context has an empty list afterwards
C28_CleanupDeletesTheEmptyContexts ==
    [][last'.op = "cleanup_empty_contexts"
       => LET empty == {c \in DOMAIN cm_contexts : Len(cm_contexts[c].task_ids) = 0}
          IN  /\ DOMAIN cm_contexts' = (DOMAIN cm_contexts) \ empty
              /\ \A c \in DOMAIN cm_contexts' : cm_contexts'[c] = cm_contexts[c]
              /\ last'.ret = Cardinality(empty)
              /\ tasks' = tasks
              /\ contexts' = contexts
              /\ \A c \in DOMAIN cm_contexts' : Len(cm_contexts'[c].task_ids) > 0]_vars

\* cleanup_empty_contexts deleted one context and kept c1, which lists a task
C28_Witness ==
    /\ last.op = "cleanup_empty_contexts"
    /\ last.ret = 1
    /\ DOMAIN cm_contexts = {"c1"}
    /\ Len(cm_contexts["c1"].task_ids) > 0
    /\ DOMAIN tasks # {}

\* C29: update_context with a metadata clause merges it: the keys of the update
\* take its values, the other keys keep theirs; the context stays under its id
\* with its task-id list, and the other contexts stay as they were
C29_UpdateMergesMetadata ==
    [][(last'.op = "update_context" /\ last'.context_id \in DOMAIN cm_contexts)
       => LET c == last'.context_id
              updates == last'.value
              old == cm_contexts[c]
          IN  /\ DOMAIN cm_contexts' = DOMAIN cm_contexts
              /\ \A d \in (DOMAIN cm_contexts) \ {c} : cm_contexts'[d] = cm_contexts[d]
              /\ cm_contexts'[c].task_ids = old.task_ids
              /\ "metadata" \in DOMAIN updates
                 => /\ DOMAIN cm_contexts'[c].metadata =
                           (DOMAIN old.metadata) \cup (DOMAIN updates.metadata)
                    /\ \A k \in DOMAIN updates.metadata :
                          cm_contexts'[c].metadata[k] = updates.metadata[k]
                    /\ \A k \in (DOMAIN old.metadata) \ (DOMAIN updates.metadata) :
                          cm_contexts'[c].metadata[k] = old.metadata[k]]_vars

\* update_context gave k1 a new value in a context that lists a task; k2 kept its own
C29_Witness ==
    /\ last.op = "update_context"
    /\ last.result = "ok"
    /\ last.context_id = "c1"
    /\ last.value = [metadata |-> [k1 |-> "v2"]]
    /\ "c1" \in DOMAIN cm_contexts
    /\ cm_contexts["c1"].metadata = [k1 |-> "v2", k2 |-> "v1"]
    /\ cm_contexts["c1"].task_ids = <<"t1">>

(***************************************************************************)
(* Properties of the reading operations of the EventQueue                  *)
(***************************************************************************)
\* the lanes and what size() and the statistics report
QueueContent ==
    <<high_priority_queue, normal_priority_queue, low_priority_queue, size,
      total_events_processed, total_events_dropped>>

\* C30: peek returns the event a get that follows it immediately returns, None on
\* an empty queue, and leaves the lanes, size() and the processed and dropped
\* counters as they were; get_events_by_type leaves them as they were too and
\* returns the queued events of the type
C30_PeekAndGetEventsByTypeOnlyRead ==
    [][/\ qlast'.op = "peek"
          => /\ QueueContent' = QueueContent
             /\ is_empty => qlast'.event = NoEvent
             /\ ~is_empty => qlast'.event \in Queued
       /\ (qlast.op = "peek" /\ qlast'.op = "get") => qlast'.event = qlast.event
       /\ qlast'.op = "get_events_by_type"
          => /\ QueueContent' = QueueContent
             /\ Range(qlast'.events) =
                    {event \in Queued : event.event_type = qlast'.event_type}]_vars

\* peek returned the older of the two events of the low lane, the other lanes
\* being empty after a get
C30_Witness ==
    /\ qlast.op = "peek"
    /\ high_priority_queue = << >>
    /\ normal_priority_queue = << >>
    /\ Len(low_priority_queue) = 2
    /\ qlast.event = low_priority_queue[1]
    /\ total_events_processed = 1

(***************************************************************************)
(* Properties of TaskManager.cleanup_old_tasks                             *)
(***************************************************************************)
\* C31: cleanup_old_tasks(max_age_hours) deletes every task whose created_at is
\* older than the time of the call minus max_age_hours, returns their number and
\* deletes no task that is younger than the cutoff
C31_CleanupDeletesTheOldTasks ==
    [][last'.op = "cleanup_old_tasks"
       => LET old == {t \in DOMAIN tasks :
                         /\ tasks[t].created_at # NoTime
                         /\ tasks[t].created_at < now' - last'.value}
          IN  /\ DOMAIN tasks' = (DOMAIN tasks) \ old
              /\ \A t \in DOMAIN tasks' : tasks'[t] = tasks[t]
              /\ last'.ret = Cardinality(old)]_vars

(***************************************************************************)
(* Properties of the EventQueue under concurrent workers                   *)
(***************************************************************************)
\* the put calls that have returned
CompletedPuts == puts - Cardinality({w \in Producers : procs[w].pc # "idle"})

\* two producers whose puts were both pending when the queue held max_size - 1
\* events, and nothing but these two puts took effect since
Raced(v, w) ==
    /\ v # w
    /\ procs[v].pc = "idle"
    /\ procs[w].pc = "idle"
    /\ procs[v].outcome # "none"
    /\ procs[w].outcome # "none"
    /\ procs[v].effects_at_call = procs[w].effects_at_call
    /\ procs[v].size_at_call = max_size - 1
    /\ procs[w].size_at_call = max_size - 1
    /\ {procs[v].effect_no, procs[w].effect_no} =
           {procs[v].effects_at_call + 1, procs[v].effects_at_call + 2}

\* C32: with the workers interleaved at every statement, the put calls that have
\* returned are as many as the events accepted (queued or processed) plus the
\* events dropped, at most one worker is inside put or get, and of two puts that
\* race on a queue holding max_size - 1 events one is accepted and one dropped
C32_PutAndGetAreAtomic ==
    /\ get_total_size <= max_size
    /\ Cardinality({w \in Workers : procs[w].pc \in {"check", "effect"}}) <= 1
    /\ lock = None
       => CompletedPuts = get_total_size + total_events_processed + total_events_dropped
    /\ \A v, w \in Producers :
          Raced(v, w) => {procs[v].outcome, procs[w].outcome} = {"accepted", "dropped"}

\* two puts raced on a queue of max_size 2 holding one event
C32_Witness ==
    /\ max_size = 2
    /\ Raced("p1", "p2")
    /\ procs["p1"].outcome = "dropped"
    /\ total_events_dropped = 1
    /\ get_total_size = 2

(***************************************************************************)
(* Properties of the size and of the statistics of the EventQueue          *)
(***************************************************************************)
\* C33: an EventQueue created with max_size >= 0 never holds more than max_size
\* events over its three lanes, whatever puts, gets, peeks and clears are made
C33_SizeNeverExceedsMaxSize ==
    max_size >= 0
    => Len(high_priority_queue) + Len(normal_priority_queue) + Len(low_priority_queue)
           <= max_size

\* a queue of max_size 1 is full and has dropped two puts
C33_Witness ==
    /\ max_size = 1
    /\ get_total_size = 1
    /\ total_events_dropped = 2
    /\ puts = 3

\* C38: total_events_processed is the number of gets that returned an event,
\* total_events_dropped the number of puts rejected, the accepted puts are the
\* events queued, processed or removed by clear, and no operation, clear
\* included, decreases a counter
C38_AccountingIsConserved ==
    /\ [](/\ total_events_processed = Len(delivered)
          /\ total_events_dropped = qhist.rejected
          /\ puts = qhist.accepted + qhist.rejected
          /\ qhist.accepted = get_total_size + total_events_processed + qhist.cleared)
    /\ [][/\ total_events_processed' >= total_events_processed
          /\ total_events_dropped' >= total_events_dropped
          /\ qlast'.op = "clear"
             => /\ total_events_processed' = total_events_processed
                /\ total_events_dropped' = total_events_dropped]_vars

\* clear removed two events from a queue that had processed one and dropped one
C38_Witness ==
    /\ qlast.op = "clear"
    /\ qhist.cleared = 2
    /\ total_events_processed = 1
    /\ total_events_dropped = 1

(***************************************************************************)
(* Properties of the EventQueue with a consumer that keeps calling get     *)
(***************************************************************************)
\* C36: a get made while a high-priority event is queued returns a high-priority
\* event and leaves the normal and the low lane as they were, so that nothing
\* bounds the time a normal or low event waits; every get made on a queue that
\* holds events returns one and shortens the queue by one, and once the puts
\* have stopped the gets empty the queue: every accepted event has been returned
C36_HighPriorityFirstAndDrainedWhenPutsStop ==
    /\ [][qlast'.op = "get"
          => /\ high_priority_queue # << >>
                => /\ qlast'.event.priority > 0
                   /\ normal_priority_queue' = normal_priority_queue
                   /\ low_priority_queue' = low_priority_queue
             /\ get_total_size > 0
                => /\ qlast'.event # NoEvent
                   /\ get_total_size' = get_total_size - 1]_vars
    /\ <>[](get_total_size = 0 /\ Len(delivered) = qhist.accepted)

\* the low event put first is still queued after two gets, which returned the
\* high events put after it
C36_Witness ==
    /\ qlast.op = "get"
    /\ Len(delivered) = 2
    /\ \A i \in 1..2 : delivered[i].priority > 0 /\ delivered[i].seq > 1
    /\ Len(low_priority_queue) = 1
    /\ low_priority_queue[1].seq = 1
    /\ high_priority_queue # << >>

(***************************************************************************)
(* Properties of a failing ContextManager.update_context                   *)
(***************************************************************************)
\* C37: an update_context that raises because the updated context fails the
\* validation leaves the stored context with the name, description, metadata
\* and updated_at it had
C37_FailedUpdateLeavesContextUnchanged ==
    [][(/\ last'.op = "update_context"
        /\ last'.result = "A2AProtocolError"
        /\ last'.context_id \in DOMAIN cm_contexts)
       => LET c == last'.context_id
          IN  /\ c \in DOMAIN cm_contexts'
              /\ cm_contexts'[c].name = cm_contexts[c].name
              /\ cm_contexts'[c].description = cm_contexts[c].description
              /\ cm_contexts'[c].metadata = cm_contexts[c].metadata
              /\ cm_contexts'[c].updated_at = cm_contexts[c].updated_at]_vars

(***************************************************************************)
(* Properties of a Loop iteration in which an agent fails                  *)
(***************************************************************************)
\* an agent has failed in the running iteration of a Loop orchestration
FailedInIteration ==
    /\ strategy = LOOP
    /\ pc \in {"loop", "await"}
    /\ \E k \in 1..Len(iteration_responses) : Status(iteration_responses[k]) = "failed"

\* C39: the stop condition of a Loop orchestration is evaluated at the end of an
\* iteration only: after an agent has failed in iteration k the next step calls
\* the agent that follows it, in iteration k, and that agent's record is added
\* to the records of the iteration; when the list is exhausted the records of
\* the iteration are returned with the earlier ones and no further iteration is
\* started, so that the returned orchestration has called every agent in
\* iteration k and none in a later one
C39_LoopStopsOnlyAtEndOfIteration ==
    /\ [][FailedInIteration
          => /\ iteration' = iteration
             /\ (pc = "loop" /\ agent_index <= Len(agents))
                => /\ pc' = "await"
                   /\ trace' = Append(trace, Ev("call", agent_index, iteration))
                   /\ UNCHANGED <<agent_index, iteration_responses, responses>>
             /\ pc = "await"
                => /\ pc' = "loop"
                   /\ agent_index' = agent_index + 1
                   /\ \E behaviour \in Behaviours :
                         iteration_responses' = iteration_responses
                            \o LoopRecord(agents[agent_index], iteration, behaviour)
                   /\ UNCHANGED responses
             /\ (pc = "loop" /\ agent_index > Len(agents))
                => /\ pc' = "done"
                   /\ responses' = responses \o iteration_responses
                   /\ UNCHANGED trace]_vars
    /\ [](strategy = LOOP /\ pc = "done"
          => \A i \in 1..Len(agents), it \in 0..(IterationsRun - 1) :
                Count("raise", i, it) = 1
                => /\ \A j \in (i + 1)..Len(agents) :
                         /\ Count("call", j, it) = 1
                         /\ Count("return", j, it) + Count("raise", j, it) = 1
                   /\ \A later \in (it + 1)..max_iterations : EntriesOf(later) = {}
                   /\ \A k \in 1..Len(responses) : responses[k].iteration <= it)

\* the first of three agents failed in the second iteration, the two after it
\* were called in that iteration and the third one's response is the last record
C39_Witness ==
    /\ strategy = LOOP
    /\ pc = "done"
    /\ Len(agents) = 3
    /\ IterationsRun = 2
    /\ Count("raise", 1, 1) = 1
    /\ Count("call", 2, 1) = 1
    /\ Count("return", 3, 1) = 1
    /\ Status(responses[1]) # "failed"
    /\ responses[Len(responses)].agent = agents[3]
    /\ responses[Len(responses)].iteration = 1
    /\ "response" \in DOMAIN responses[Len(responses)]

(***************************************************************************)
(* Properties of the EventQueue of an invocation                           *)
(***************************************************************************)
\* the records built so far, returned or not
AllRecords ==
    Range(responses) \cup Range(iteration_responses)
       \cup {gathered[i] : i \in DOMAIN gathered}

\* the records that report an event
Reports == {r \in AllRecords : "response" \in DOMAIN r}

\* the invocations that have ended
EndedInvocations == {k \in 1..Len(trace) : "placed" \in DOMAIN trace[k]}

\* the put that is served first: the first put of the highest lane in use
FirstServed(priorities) ==
    LET lane(l) == {k \in 1..Len(priorities) :
                       (IF priorities[k] > 0 THEN 1
                        ELSE IF priorities[k] < 0 THEN -1 ELSE 0) = l}
        top == CHOOSE l \in {1, 0, -1} :
                  /\ lane(l) # {}
                  /\ \A h \in {1, 0, -1} : h > l => lane(h) = {}
    IN  CHOOSE k \in lane(top) : \A j \in lane(top) : k <= j

\* the reports of the events that the invocation at position k of trace put
ReportsOf(k) ==
    {r \in Reports : /\ r.response.agent = agents[trace[k].agent]
                     /\ r.response.iteration = trace[k].iteration}

\* C34: a record reports an event only if the invocation the record stands for
\* put that event on its queue, never the event of another agent or iteration;
\* of the events an agent puts during one invocation exactly one is reported, in
\* one record: the first put of the highest lane in use; an invocation that
\* raised or put nothing is reported with no event
C34_OneEventOfItsOwnQueuePerInvocation ==
    /\ \A r \in Reports :
          /\ r.response.agent = r.agent
          /\ "iteration" \in DOMAIN r => r.response.iteration = r.iteration
          /\ \E k \in EndedInvocations : r \in ReportsOf(k)
    /\ \A k \in EndedInvocations :
          IF trace[k].ev = "return" /\ trace[k].placed # << >>
          THEN /\ Cardinality(ReportsOf(k)) = 1
               /\ \A r \in ReportsOf(k) : r.response.no = FirstServed(trace[k].placed)
          ELSE ReportsOf(k) = {}

\* a Sequential orchestration has returned: its first agent put two normal
\* events and the first is reported, its second agent put a low and then a high
\* event and the high one is reported
C34_Witness ==
    /\ strategy = SEQUENTIAL
    /\ pc = "done"
    /\ Len(agents) = 2
    /\ Len(trace) = 4
    /\ trace[2].placed = <<0, 0>>
    /\ trace[4].placed = <<-1, 1>>
    /\ Len(responses) = 2
    /\ responses[1].response = [agent |-> agents[1], iteration |-> NoIteration, no |-> 1]
    /\ responses[2].response = [agent |-> agents[2], iteration |-> NoIteration, no |-> 2]

(***************************************************************************)
(* Properties of an orchestration with a hung agent                        *)
(***************************************************************************)
\* an execute call of the orchestration has hung
SomeHung == \E k \in 1..Len(trace) : trace[k].ev \in Hangs

\* every agent of the list has been invoked
AllInvoked == \A i \in 1..Len(agents) : Count("call", i, NoIteration) = 1

\* nothing cancels a hung call: in Sequential and Loop no further agent is
\* invoked, no record is added and orchestrate does not return; in Parallel
\* orchestrate does not return
HungStalls ==
    /\ [][(SomeHung /\ strategy \in {SEQUENTIAL, LOOP})
          => /\ trace' = trace
             /\ pc' = "await"
             /\ responses' = responses
             /\ iteration_responses' = iteration_responses]_vars
    /\ []((SomeHung /\ strategy = PARALLEL) => (pc # "done" /\ responses = << >>))

\* C35 as stated: a hung call stalls its slot, and in Parallel every other agent
\* is still invoked
C35_HungAgentStallsItsSlotOnly ==
    /\ HungStalls
    /\ (SomeHung /\ strategy = PARALLEL) ~> AllInvoked

\* C35: a hung call stalls its slot for ever; in Parallel every other agent is
\* still invoked unless an execute call blocks the event loop, and while one
\* does no other agent is invoked and none completes
C35_HungAgentStallsItsSlot ==
    /\ HungStalls
    /\ (SomeHung /\ strategy = PARALLEL) ~> (AllInvoked \/ Blocked)
    /\ [][Blocked => (trace' = trace /\ gathered' = gathered)]_vars

\* the first of three Parallel agents is suspended for ever, the two others
\* were invoked after it hung and have completed, and the join is still waiting
C35_Witness ==
    /\ strategy = PARALLEL
    /\ pc = "loop"
    /\ Len(agents) = 3
    /\ Len(trace) = 6
    /\ trace[2] = Ev("suspend", 1, NoIteration)
    /\ DOMAIN gathered = {2, 3}
    /\ Status(gathered[2]) = "completed"
    /\ Status(gathered[3]) = "completed"
    /\ ~ENABLED ParallelJoin

====
